---- MODULE Spec2Model ----
(***************************************************************************)
(* Text to SVG Path Converter: the page script text-to-path-converter.js   *)
(* (module-level handles, asynchronous initialisation, renderSVG) and the  *)
(* UniversalTextShaper class.                                              *)
(*                                                                         *)
(* Lengths (x, y, widths, heights, letter spacing) are integers counted in *)
(* TENTHS of an SVG user unit, so that the code's decimal factors are      *)
(* exact: fontSize * 1.2 is fontSize * 12, "+ 20" is "+ 200", and so on.   *)
(* fontSize itself is kept in user units, as the slider delivers it.       *)
(* Indices stored in visualOrder are the code's 0-based logical indices;   *)
(* the sequences holding them are 1-based.                                 *)
(***************************************************************************)
EXTENDS Integers, Sequences, FiniteSets, TLC

\* ------------------------------------------------------------------ bounds
MaxLen == 2

\* ------------------------------------------------------------ input domains
\* "a" and "b" are Latin letters, "h" and "g" stand for letters of the
\* Hebrew block U+0590..U+05FF.
Chars == {"a", "b", "h"}

FontSizes == {30, 40, 50}

LetterSpacings == {0, 15}

Directions == {"ltr", "rtl", "auto"}

DisplayModes == {"text", "svg", "entire", "harfbuzz"}

Texts == UNION {[1..n -> Chars] : n \in 0..MaxLen}

Settings == [text : Texts, fontSize : FontSizes, letterSpacing : LetterSpacings,
             direction : Directions, displayMode : DisplayModes]

\* the form values tried at each click of the page's life: the form as the
\* page delivers it (size 30, spacing 0) with a text of at most one letter
ClickSettings ==
  {st \in Settings : Len(st.text) <= 1 /\ st.fontSize = 30 /\ st.letterSpacing = 0
                     /\ st.direction = "ltr"}

Scripts == {"latin", "hebrew"}

\* ---------------------------------------------------------------- helpers
Min(a, b) == IF a < b THEN a ELSE b

Max(a, b) == IF a > b THEN a ELSE b

\* /[\u0590-\u05FF]/.test(char)
IsHebrew(ch) == ch \in {"h", "g"}

\* /[\u0590-\u05FF]/.test(settings.text)
HasHebrew(text) == \E i \in 1..Len(text) : IsHebrew(text[i])

\* ---------------------------------------------------------- font metrics
\* font.unitsPerEm of the two OpenType fonts ("latin" is `font`,
\* "hebrew" is `hebrewFont`).
UnitsPerEm(f) == IF f = "hebrew" THEN 2000 ELSE 1000

\* glyph.advanceWidth of font.charToGlyph(char), in font units.  A font
\* without the character answers with its .notdef glyph.
AdvanceWidth(f, ch) ==
  IF f = "hebrew"
    THEN (IF ch = "h" THEN 1200 ELSE IF ch = "g" THEN 1000 ELSE 800)
    ELSE (IF ch = "a" THEN 600 ELSE IF ch = "b" THEN 700 ELSE 500)

\* glyph.advanceWidth * (fontSize / font.unitsPerEm), in tenths
GlyphWidth(f, ch, fontSize) ==
  (AdvanceWidth(f, ch) * fontSize * 10) \div UnitsPerEm(f)

\* pathData && pathData.trim() !== '' : the glyph has an outline
HasOutline(ch) == ch # " "

\* ------------------------------------------------------- bidi engine (bidi-js)
\* The engine is an external collaborator; its two calls are modelled from
\* the specification's description of them (UAX#9 embedding levels and the
\* L2 reorder runs), for texts of strong characters only.

\* paragraph level: 1 for 'rtl', 0 for 'ltr', otherwise that of the first
\* strong character
ParagraphLevel(text, direction) ==
  IF direction = "rtl" THEN 1
  ELSE IF direction = "ltr" THEN 0
  ELSE IF Len(text) > 0 /\ IsHebrew(text[1]) THEN 1 ELSE 0

\* bidiProcessor.getEmbeddingLevels(text, direction).levels
GetEmbeddingLevels(text, direction) ==
  LET p == ParagraphLevel(text, direction)
  IN [i \in 1..Len(text) |->
        IF IsHebrew(text[i]) THEN (IF p % 2 = 1 THEN p ELSE p + 1)
                             ELSE (IF p % 2 = 0 THEN p ELSE p + 1)]

\* the maximal runs of indices whose level is >= lvl, left to right, as
\* 0-based inclusive (start, end) pairs; runs of one character are dropped
RECURSIVE RunsAtLevel(_, _, _)
RunsAtLevel(levels, lvl, from) ==
  IF from > Len(levels) THEN <<>>
  ELSE IF levels[from] < lvl THEN RunsAtLevel(levels, lvl, from + 1)
  ELSE LET stop == CHOOSE j \in from..Len(levels) :
                     /\ \A k \in from..j : levels[k] >= lvl
                     /\ (j = Len(levels) \/ levels[j + 1] < lvl)
       IN (IF stop > from THEN << <<from - 1, stop - 1>> >> ELSE <<>>)
          \o RunsAtLevel(levels, lvl, stop + 1)

RECURSIVE SegmentsFromLevel(_, _, _)
SegmentsFromLevel(levels, lvl, minOdd) ==
  IF lvl < minOdd THEN <<>>
  ELSE RunsAtLevel(levels, lvl, 1) \o SegmentsFromLevel(levels, lvl - 1, minOdd)

\* bidiProcessor.getReorderSegments(text, embeddingLevels): from the highest
\* level down to the lowest odd level, every run at that level or higher
GetReorderSegments(text, direction) ==
  LET levels == GetEmbeddingLevels(text, direction)
      p      == ParagraphLevel(text, direction)
      n      == Len(text)
      maxLvl == IF n = 0 THEN p
                ELSE Max(p, CHOOSE m \in {levels[i] : i \in 1..n} :
                              \A i \in 1..n : levels[i] <= m)
      minLvl == IF n = 0 THEN p
                ELSE CHOOSE m \in {levels[i] : i \in 1..n} :
                       \A i \in 1..n : levels[i] >= m
      minOdd == IF minLvl % 2 = 1 THEN minLvl ELSE minLvl + 1
  IN IF n < 2 THEN <<>> ELSE SegmentsFromLevel(levels, maxLvl, minOdd)

\* --------------------------------------------------------- visual order
\* Array.from({length: n}, (_, i) => n - 1 - i): the indices from the last
IdentityOrderReversed(n) == [i \in 1..n |-> n - i]

\* Array.from({length: n}, (_, i) => i)
IdentityOrder(n) == [i \in 1..n |-> i - 1]

\* with slice(start, end) for slice(start, end + 1): the splice removes
\* one element more than it puts back
ReverseSegmentShortSlice(visualOrder, start, end) ==
  LET n    == Len(visualOrder)
      e    == Min(end, n)
      head == SubSeq(visualOrder, 1, Min(start, n))
      seg  == [i \in 1..Max(e - start, 0) |-> visualOrder[e + 1 - i]]
      tail == IF end + 2 <= n THEN SubSeq(visualOrder, end + 2, n) ELSE <<>>
  IN head \o seg \o tail

\* with fill(visualOrder[end], start, end + 1) for the reversal
ReverseSegmentFill(visualOrder, start, end) ==
  LET last == Min(end, Len(visualOrder) - 1)
  IN [i \in 1..Len(visualOrder) |->
        IF start + 1 <= i /\ i <= last + 1 THEN visualOrder[last + 1]
                                           ELSE visualOrder[i]]

\* const segment = visualOrder.slice(start, end + 1).reverse();
\* visualOrder.splice(start, end - start + 1, ...segment);
ReverseSegment(visualOrder, start, end) ==
  LET last == Min(end, Len(visualOrder) - 1)
  IN [i \in 1..Len(visualOrder) |->
        IF start + 1 <= i /\ i <= last + 1
          THEN visualOrder[(start + 1) + (last + 1) - i]
          ELSE visualOrder[i]]

\* the segments taken from the last to the first:
\* reorderSegments.reverse().forEach(...)
RECURSIVE ApplySegmentsLastFirst(_, _)
ApplySegmentsLastFirst(visualOrder, segments) ==
  IF segments = <<>> THEN visualOrder
  ELSE ReverseSegment(ApplySegmentsLastFirst(visualOrder, Tail(segments)),
                      segments[1][1], segments[1][2])

\* reorderSegments.forEach(([start, end]) => { ... })
RECURSIVE ApplySegments(_, _)
ApplySegments(visualOrder, segments) ==
  IF segments = <<>> THEN visualOrder
  ELSE ApplySegments(ReverseSegment(visualOrder, segments[1][1], segments[1][2]),
                     Tail(segments))

\* visualOrder.map(i => text[i]).join('')
VisualText(text, visualOrder) ==
  [i \in 1..Len(visualOrder) |-> text[visualOrder[i] + 1]]

\* processTextForBidi(text, direction).visualOrder; bidiThrows tells whether
\* the engine raises an exception in this call
ProcessTextForBidi(text, direction, bidiReady, bidiThrows) ==
  IF ~bidiReady THEN IdentityOrder(Len(text))
  ELSE IF bidiThrows THEN IdentityOrder(Len(text))
  ELSE ApplySegments(IdentityOrder(Len(text)), GetReorderSegments(text, direction))

\* ------------------------------------------------------ glyph positioner
\* calculateCharacterPositions(text, visualOrder, fontSize, letterSpacing):
\* the loop from visual index i (1-based here) with the cursor at currentX
RECURSIVE PositionsFrom(_, _, _, _, _, _)
PositionsFrom(text, visualOrder, fontSize, letterSpacing, i, currentX) ==
  IF i > Len(visualOrder) THEN <<>>
  ELSE LET charIndex  == visualOrder[i]
           char       == text[charIndex + 1]
           glyphWidth == GlyphWidth("latin", char, fontSize)
       IN << [char |-> char, x |-> currentX, y |-> fontSize * 12,
              width |-> glyphWidth, visualIndex |-> i - 1,
              originalIndex |-> charIndex] >>
          \o PositionsFrom(text, visualOrder, fontSize, letterSpacing, i + 1,
                           currentX + glyphWidth + letterSpacing)

\* calculateCharacterPositions with `let currentX = 1`
CalculateCharacterPositionsPadded(text, visualOrder, fontSize, letterSpacing, fontLoaded) ==
  IF ~fontLoaded /\ Len(visualOrder) > 0
    THEN [exc |-> "TypeError", positions |-> <<>>]
    ELSE [exc |-> "",
          positions |-> PositionsFrom(text, visualOrder, fontSize, letterSpacing, 1, 10)]

\* calculateCharacterPositions reads the module-level `font`: with font null
\* the first font.charToGlyph raises a TypeError.  [exc, positions]
CalculateCharacterPositions(text, visualOrder, fontSize, letterSpacing, fontLoaded) ==
  IF ~fontLoaded /\ Len(visualOrder) > 0
    THEN [exc |-> "TypeError", positions |-> <<>>]
    ELSE [exc |-> "",
          positions |-> PositionsFrom(text, visualOrder, fontSize, letterSpacing, 1, 0)]

\* ---------------------------------------------------- markup of one render
\* An element is [tag, ch, x, y, size]: x and y in tenths, except that the
\* tags "entire" and "notice" carry x (and "notice" y) as a percentage;
\* size is the font-size attribute or the fontSize handed to glyph.getPath.
Element(tag, ch, x, y, size) ==
  [tag |-> tag, ch |-> ch, x |-> x, y |-> y, size |-> size]

\* what a renderer returns: kind of content, message shown in it, elements
Content(kind, msg, els) == [kind |-> kind, msg |-> msg, els |-> els]

\* renderTextCharacters(positions, settings)
RenderTextCharacters(positions, settings) ==
  Content("textChars", "",
          [i \in 1..Len(positions) |->
             Element("text", positions[i].char, positions[i].x, positions[i].y,
                     settings.fontSize)])

\* renderSVGPath drawing every outline one user unit to the right of its
\* position: pos.glyph.getPath(pos.x + 1, pos.y, settings.fontSize)
RenderSVGPathShifted(positions, settings) ==
  Content("path", "",
          [i \in 1..Len(positions) |->
             Element("glyph", positions[i].char, positions[i].x + 10, positions[i].y,
                     settings.fontSize)])

\* renderSVGPath(positions, settings): one <path> of the glyph outlines
RenderSVGPath(positions, settings) ==
  Content("path", "",
          [i \in 1..Len(positions) |->
             Element("glyph", positions[i].char, positions[i].x, positions[i].y,
                     settings.fontSize)])

\* renderEntireText(settings): x="50%" text-anchor="middle"
RenderEntireText(settings) ==
  Content("entire", "",
          << Element("entire", "*", 50, settings.fontSize * 12, settings.fontSize) >>)

\* the <text x="50%" y="50%" ...> notices of the HarfBuzz branch
Notice(kind, msg, settings) ==
  Content(kind, msg, << Element("notice", "*", 50, 50, settings.fontSize) >>)

\* the loop of renderHarfBuzzSVGPath with `break` for `continue`: the first
\* character without a font ends the line
RECURSIVE HarfBuzzGlyphsUntilMissing(_, _, _, _, _)
HarfBuzzGlyphsUntilMissing(settings, visualOrder, hebrewFontLoaded, i, currentX) ==
  IF i > Len(visualOrder) THEN <<>>
  ELSE LET char == settings.text[visualOrder[i] + 1]
           y    == settings.fontSize * 8
       IN IF IsHebrew(char) /\ ~hebrewFontLoaded
            THEN <<>>
            ELSE LET currentFont == IF IsHebrew(char) THEN "hebrew" ELSE "latin"
                     advance     == GlyphWidth(currentFont, char, settings.fontSize)
                 IN (IF HasOutline(char)
                       THEN << Element("glyph", char, currentX, y, settings.fontSize) >>
                       ELSE <<>>)
                    \o HarfBuzzGlyphsUntilMissing(settings, visualOrder,
                                                  hebrewFontLoaded, i + 1,
                                                  currentX + advance)

\* renderHarfBuzzSVGPath, the loop over the visual order from position i
\* with the cursor at currentX
RECURSIVE HarfBuzzGlyphsFrom(_, _, _, _, _)
HarfBuzzGlyphsFrom(settings, visualOrder, hebrewFontLoaded, i, currentX) ==
  IF i > Len(visualOrder) THEN <<>>
  ELSE LET char == settings.text[visualOrder[i] + 1]
           y    == settings.fontSize * 8
       IN IF IsHebrew(char) /\ ~hebrewFontLoaded
            THEN HarfBuzzGlyphsFrom(settings, visualOrder, hebrewFontLoaded, i + 1,
                                    currentX + settings.fontSize * 6)
            ELSE LET currentFont == IF IsHebrew(char) THEN "hebrew" ELSE "latin"
                     advance     == GlyphWidth(currentFont, char, settings.fontSize)
                 IN (IF HasOutline(char)
                       THEN << Element("glyph", char, currentX, y, settings.fontSize) >>
                       ELSE <<>>)
                    \o HarfBuzzGlyphsFrom(settings, visualOrder, hebrewFontLoaded,
                                          i + 1, currentX + advance)

\* renderHarfBuzzSVGPath with an auto-fit: the outlines are drawn at a font
\* size clamped to 40 so that the run fits the minimum canvas
RenderHarfBuzzSVGPathAutoFit(settings, env, bidiThrows) ==
  IF ~env.shaper.obj
    THEN Notice("notice", "UniversalTextShaper not initialized", settings)
  ELSE IF settings.text = <<>>
    THEN Notice("notice", "Enter text to see HarfBuzz output", settings)
  ELSE Content("hbPaths", "",
               HarfBuzzGlyphsFrom([settings EXCEPT !.fontSize = Min(@, 40)],
                                  ProcessTextForBidi(settings.text, settings.direction,
                                                     env.bidi, bidiThrows),
                                  env.hebrewFont, 1, 100))

\* renderHarfBuzzSVGPath(settings); env holds the module-level handles it
\* reads.  A Latin character with font null raises a TypeError inside its
\* try block, which its catch turns into the error notice.
RenderHarfBuzzSVGPath(settings, env, bidiThrows) ==
  IF ~env.shaper.obj
    THEN Notice("notice", "UniversalTextShaper not initialized", settings)
  ELSE IF settings.text = <<>>
    THEN Notice("notice", "Enter text to see HarfBuzz output", settings)
  ELSE IF ~env.font /\ \E i \in 1..Len(settings.text) : ~IsHebrew(settings.text[i])
    THEN Notice("error", "HarfBuzz Error: TypeError", settings)
  ELSE Content("hbPaths", "",
               HarfBuzzGlyphsFrom(settings,
                                  ProcessTextForBidi(settings.text, settings.direction,
                                                     env.bidi, bidiThrows),
                                  env.hebrewFont, 1, 100))

\* --------------------------------------------------- UniversalTextShaper
\* The object behind the module-level `universalShaper`; obj = FALSE is the
\* null reference.  fonts is the Map script -> font data ("none": no entry).
NullShaper ==
  [obj |-> FALSE, hb |-> FALSE, fonts |-> [sc \in Scripts |-> "none"],
   fallbackFont |-> "none", isReady |-> FALSE]

\* new UniversalTextShaper()
NewShaper ==
  [obj |-> TRUE, hb |-> FALSE, fonts |-> [sc \in Scripts |-> "none"],
   fallbackFont |-> "none", isReady |-> FALSE]

\* the tail of initialize(): this.hb = hbjs(hbModule); this.isReady = true
Initialized(shaper) == [shaper EXCEPT !.hb = TRUE, !.isReady = TRUE]

\* loadFont without its `if (!this.isReady)` throw
LoadFontUnchecked(shaper, fontBuffer, script, isDefault) ==
  [exc |-> "",
   shaper |-> [shaper EXCEPT
                 !.fonts[script] = fontBuffer,
                 !.fallbackFont = IF isDefault \/ shaper.fallbackFont = "none"
                                    THEN fontBuffer ELSE @]]

\* loadFont(fontBuffer, script, isDefault): [exc, shaper]
LoadFont(shaper, fontBuffer, script, isDefault) ==
  IF ~shaper.isReady
    THEN [exc |-> "Must call initialize() first", shaper |-> shaper]
    ELSE [exc |-> "",
          shaper |-> [shaper EXCEPT
                        !.fonts[script] = fontBuffer,
                        !.fallbackFont = IF isDefault \/ shaper.fallbackFont = "none"
                                           THEN fontBuffer ELSE @]]

\* face.upem of the font data handed to HarfBuzz
FaceUpem(fontData) == IF fontData = "hebrewBuffer" THEN 1000 ELSE 2000

\* glyph.ax as hb.shape leaves it in buffer.json(), in face units (the font
\* scale is set to face.upem); the engine's shaping of these variable fonts
\* need not agree with the advances of the OpenType.js fonts
ShapedAdvance(fontData, ch) ==
  IF fontData = "hebrewBuffer"
    THEN (IF ch = "h" THEN 600 ELSE IF ch = "g" THEN 500 ELSE 400)
    ELSE (IF ch = "a" THEN 1200 ELSE IF ch = "b" THEN 1300 ELSE 1000)

\* applyBidi(text, paragraphDirection)
ApplyBidi(text, paragraphDirection, bidiDefined, bidiThrows) ==
  IF paragraphDirection = "ltr" THEN text
  ELSE IF ~bidiDefined \/ bidiThrows THEN text
  ELSE VisualText(text,
                  ApplySegments(IdentityOrder(Len(text)),
                                GetReorderSegments(text,
                                   IF paragraphDirection = "rtl" THEN "rtl" ELSE "auto")))

\* processedText.split('\n')
RECURSIVE SplitLines(_, _)
SplitLines(text, current) ==
  IF text = <<>> THEN << current >>
  ELSE IF Head(text) = "\n" THEN << current >> \o SplitLines(Tail(text), <<>>)
  ELSE SplitLines(Tail(text), Append(current, Head(text)))

RECURSIVE SumAdvances(_)
SumAdvances(glyphs) ==
  IF glyphs = <<>> THEN 0 ELSE Head(glyphs).advanceX + SumAdvances(Tail(glyphs))

\* glyph.pathJson: the outline extents it may carry (xMin, xMax, yMin,
\* yMax), or none: font.glyphToJson returns the list of path commands,
\* which has no xMin
NoExtents == [hasExtents |-> FALSE, xMin |-> 0, xMax |-> 0, yMin |-> 0, yMax |-> 0]

\* shapeLine(text, options) when the engine raises nothing: [exc, line].
\* width, height, x and y are in tenths; advanceX, offsetX and offsetY are
\* the numbers of buffer.json(), in face units.
ShapeLine(shaper, text, fontSize, x, y, fontScript) ==
  LET fontData == IF shaper.fonts[fontScript] # "none" THEN shaper.fonts[fontScript]
                  ELSE shaper.fallbackFont
      glyphs   == [i \in 1..Len(text) |->
                     [cluster |-> i - 1, ch |-> text[i],
                      advanceX |-> ShapedAdvance(fontData, text[i]),
                      offsetX |-> 0, offsetY |-> 0,
                      path |-> HasOutline(text[i]), pathJson |-> NoExtents]]
      line     == [text |-> text, glyphs |-> glyphs,
                   width |-> (SumAdvances(glyphs) * fontSize * 10) \div FaceUpem(fontData),
                   height |-> fontSize * 10, x |-> x, y |-> y]
  IN IF fontData = "none"
       THEN [exc |-> "No font loaded for script", lines |-> <<>>]
       ELSE [exc |-> "", lines |-> << line >>]

\* the loop of shapeText over lines[i], i 0-based: the shaped lines so far,
\* or the exception that ended it
RECURSIVE ShapeLinesFrom(_, _, _, _, _, _, _)
ShapeLinesFrom(shaper, lines, i, fontSize, x, y, fontScript) ==
  IF i >= Len(lines) THEN [exc |-> "", lines |-> <<>>]
  ELSE IF lines[i + 1] = <<>>
    THEN ShapeLinesFrom(shaper, lines, i + 1, fontSize, x, y, fontScript)
  ELSE LET one  == ShapeLine(shaper, lines[i + 1], fontSize, x,
                             y + (i * fontSize * 12), fontScript)
           rest == ShapeLinesFrom(shaper, lines, i + 1, fontSize, x, y, fontScript)
       IN IF one.exc # "" THEN one
          ELSE IF rest.exc # "" THEN rest
          ELSE [exc |-> "", lines |-> one.lines \o rest.lines]

RECURSIVE MaxWidth(_)
MaxWidth(shapedLines) ==
  IF Len(shapedLines) = 1 THEN shapedLines[1].width
  ELSE Max(shapedLines[1].width, MaxWidth(Tail(shapedLines)))

\* combineLines, line.glyphs.forEach from glyph i with the cursor at
\* currentX: the glyphs with their absoluteX and absoluteY.  The cursor is
\* a number of the output's coordinate space (kept in tenths) to which the
\* code adds the engine's advanceX as it is: currentX += glyph.advanceX
RECURSIVE PlaceGlyphs(_, _, _)
PlaceGlyphs(line, i, currentX) ==
  IF i > Len(line.glyphs) THEN <<>>
  ELSE LET glyph == line.glyphs[i]
       IN << [advanceX |-> glyph.advanceX, offsetX |-> glyph.offsetX,
              offsetY |-> glyph.offsetY, path |-> glyph.path,
              pathJson |-> glyph.pathJson,
              absoluteX |-> currentX + glyph.offsetX * 10,
              absoluteY |-> line.y - glyph.offsetY * 10] >>
          \o PlaceGlyphs(line, i + 1, currentX + glyph.advanceX * 10)

\* combineLines, shapedLines.forEach: allGlyphs
RECURSIVE AllGlyphs(_)
AllGlyphs(shapedLines) ==
  IF shapedLines = <<>> THEN <<>>
  ELSE PlaceGlyphs(Head(shapedLines), 1, Head(shapedLines).x)
       \o AllGlyphs(Tail(shapedLines))

\* svgElements: translate(finalX, finalY) of every glyph that has a path
RECURSIVE SvgElements(_)
SvgElements(allGlyphs) ==
  IF allGlyphs = <<>> THEN <<>>
  ELSE (IF Head(allGlyphs).path
          THEN << [x |-> Head(allGlyphs).absoluteX, y |-> Head(allGlyphs).absoluteY] >>
          ELSE <<>>)
       \o SvgElements(Tail(allGlyphs))

\* combineLines(shapedLines, processedText, direction)
CombineLines(shapedLines, processedText, direction) ==
  IF Len(shapedLines) = 0
    THEN [exc |-> "", text |-> processedText, direction |-> direction,
          lines |-> <<>>, totalWidth |-> 0, totalHeight |-> 0,
          svgElements |-> <<>>, glyphs |-> <<>>]
    ELSE [exc |-> "", text |-> processedText, direction |-> direction,
          lines |-> shapedLines,
          totalWidth |-> MaxWidth(shapedLines),
          totalHeight |-> Len(shapedLines) * shapedLines[1].height,
          svgElements |-> SvgElements(AllGlyphs(shapedLines)),
          glyphs |-> AllGlyphs(shapedLines)]

\* shapeText(text, options) with lineHeight 1.2: the shaping result, or
\* exc = the message of the Error it throws
ShapeText(shaper, text, fontSize, paragraphDirection, x, y, fontScript, bidiDefined, bidiThrows) ==
  IF ~shaper.isReady
    THEN [exc |-> "Must call initialize() first", text |-> text,
          direction |-> paragraphDirection, lines |-> <<>>,
          totalWidth |-> 0, totalHeight |-> 0, svgElements |-> <<>>, glyphs |-> <<>>]
    ELSE LET processedText == ApplyBidi(text, paragraphDirection, bidiDefined, bidiThrows)
             shaped == ShapeLinesFrom(shaper, SplitLines(processedText, <<>>), 0,
                                      fontSize, x, y, fontScript)
         IN IF shaped.exc # ""
              THEN [exc |-> shaped.exc, text |-> processedText,
                    direction |-> paragraphDirection, lines |-> <<>>,
                    totalWidth |-> 0, totalHeight |-> 0, svgElements |-> <<>>,
                    glyphs |-> <<>>]
              ELSE CombineLines(shaped.lines, processedText, paragraphDirection)

\* ---------------------------------------------- calculateActualBounds
\* A JavaScript number that may be infinite: inf is 1 for Infinity, -1 for
\* -Infinity and 0 for the finite number v (in tenths)
Infinity == [inf |-> 1, v |-> 0]

NegInfinity == [inf |-> -1, v |-> 0]

Finite(n) == [inf |-> 0, v |-> n]

\* Math.min(a, n) and Math.max(a, n) for a finite n
MathMin(a, n) ==
  IF a.inf = 1 THEN Finite(n) ELSE IF a.inf = -1 THEN a ELSE Finite(Min(a.v, n))

MathMax(a, n) ==
  IF a.inf = -1 THEN Finite(n) ELSE IF a.inf = 1 THEN a ELSE Finite(Max(a.v, n))

\* a - b where a is not Infinity and b is not -Infinity
Minus(a, b) ==
  IF a.inf = 0 /\ b.inf = 0 THEN Finite(a.v - b.v) ELSE NegInfinity

\* line.glyphs.forEach of calculateActualBounds from glyph i with the
\* cursor at currentX: acc is [minX, maxX, minY, maxY]
RECURSIVE BoundsOfGlyphs(_, _, _, _)
BoundsOfGlyphs(line, i, currentX, acc) ==
  IF i > Len(line.glyphs) THEN acc
  ELSE LET glyph  == line.glyphs[i]
           glyphX == currentX + glyph.offsetX * 10
           glyphY == line.y - glyph.offsetY * 10
           next   ==
             IF glyph.pathJson.hasExtents
               THEN [minX |-> MathMin(acc.minX, glyphX + glyph.pathJson.xMin * 10),
                     maxX |-> MathMax(acc.maxX, glyphX + glyph.pathJson.xMax * 10),
                     minY |-> MathMin(acc.minY, glyphY - glyph.pathJson.yMax * 10),
                     maxY |-> MathMax(acc.maxY, glyphY - glyph.pathJson.yMin * 10)]
               ELSE [minX |-> MathMin(acc.minX, glyphX),
                     maxX |-> MathMax(acc.maxX, glyphX + glyph.advanceX * 10),
                     minY |-> MathMin(acc.minY, glyphY - (line.height * 8) \div 10),
                     maxY |-> MathMax(acc.maxY, glyphY + (line.height * 2) \div 10)]
       IN BoundsOfGlyphs(line, i + 1, currentX + glyph.advanceX * 10, next)

\* shapingResult.lines.forEach of calculateActualBounds
RECURSIVE BoundsOfLines(_, _)
BoundsOfLines(lines, acc) ==
  IF lines = <<>> THEN acc
  ELSE BoundsOfLines(Tail(lines), BoundsOfGlyphs(Head(lines), 1, Head(lines).x, acc))

\* the result { x, y, width, height, minX, maxX, minY, maxY }
BoundsRecord(minX, maxX, minY, maxY) ==
  [x |-> minX, y |-> minY, width |-> Minus(maxX, minX), height |-> Minus(maxY, minY),
   minX |-> minX, maxX |-> maxX, minY |-> minY, maxY |-> maxY]

\* calculateActualBounds without its `if (minX === Infinity)` return
CalculateActualBoundsUnguarded(shapingResult) ==
  IF Len(shapingResult.glyphs) = 0
    THEN BoundsRecord(Finite(0), Finite(0), Finite(0), Finite(0))
    ELSE LET acc == BoundsOfLines(shapingResult.lines,
                                  [minX |-> Infinity, maxX |-> NegInfinity,
                                   minY |-> Infinity, maxY |-> NegInfinity])
         IN BoundsRecord(acc.minX, acc.maxX, acc.minY, acc.maxY)

\* calculateActualBounds(shapingResult)
CalculateActualBounds(shapingResult) ==
  IF Len(shapingResult.glyphs) = 0
    THEN BoundsRecord(Finite(0), Finite(0), Finite(0), Finite(0))
    ELSE LET acc == BoundsOfLines(shapingResult.lines,
                                  [minX |-> Infinity, maxX |-> NegInfinity,
                                   minY |-> Infinity, maxY |-> NegInfinity])
         IN IF acc.minX = Infinity
              THEN BoundsRecord(Finite(0), Finite(shapingResult.totalWidth),
                                Finite(0), Finite(shapingResult.totalHeight))
              ELSE BoundsRecord(acc.minX, acc.maxX, acc.minY, acc.maxY)

\* ------------------------------------------------------------ renderSVG
\* the preview area: kind "initial" (the page as loaded), "cleared"
\* (innerHTML = ''), "message" (textContent = msg) or "svg": the <svg> with
\* its width and height attributes (number and unit) and the four numbers
\* of its viewBox, holding content
NoContent == Content("none", "", <<>>)

PreviewInitial ==
  [kind |-> "initial", msg |-> "", width |-> 0, height |-> 0, unit |-> "",
   viewBox |-> <<0, 0, 0, 0>>, content |-> NoContent]

PreviewCleared ==
  [kind |-> "cleared", msg |-> "", width |-> 0, height |-> 0, unit |-> "",
   viewBox |-> <<0, 0, 0, 0>>, content |-> NoContent]

PreviewMessage(msg) ==
  [kind |-> "message", msg |-> msg, width |-> 0, height |-> 0, unit |-> "",
   viewBox |-> <<0, 0, 0, 0>>, content |-> NoContent]

\* <svg width="${totalWidth}mm" height="${maxHeight}mm"
\*      viewBox="0 0 ${totalWidth} ${maxHeight}"> with a viewBox that leaves
\* a margin of 10 user units around the canvas
PreviewSvgWithMargin(totalWidth, maxHeight, svgContent) ==
  [kind |-> "svg", msg |-> "", width |-> totalWidth, height |-> maxHeight,
   unit |-> "mm", viewBox |-> <<0, 0, totalWidth + 100, maxHeight + 100>>,
   content |-> svgContent]

\* <svg width="${totalWidth}mm" height="${maxHeight}mm"
\*      viewBox="0 0 ${totalWidth} ${maxHeight}">${svgContent}</svg>
PreviewSvg(totalWidth, maxHeight, svgContent) ==
  [kind |-> "svg", msg |-> "", width |-> totalWidth, height |-> maxHeight,
   unit |-> "mm", viewBox |-> <<0, 0, totalWidth, maxHeight>>,
   content |-> svgContent]

\* what one call of renderSVG does: the preview it leaves (old when it
\* writes none), whether an exception escaped it, whether it reached the
\* await of renderHarfBuzzSVGPath, whether the bidi engine threw in its try
\* block, and the state of the shaper shapeText was invoked on
Outcome(newPreview, threw, awaited, bidiThrew, shapedOn) ==
  [preview |-> newPreview, threw |-> threw, awaited |-> awaited,
   bidiThrew |-> bidiThrew, shapedOn |-> shapedOn]

\* how far initializeUniversalShaper has brought the shaper
ShaperStatus(shaper) ==
  IF ~shaper.obj THEN "null"
  ELSE IF ~shaper.isReady THEN "uninitialized"
  ELSE IF \A sc \in Scripts : shaper.fonts[sc] = "none" THEN "noFonts"
  ELSE "ready"

\* the branch settings.displayMode === 'harfbuzz' of renderSVG
RenderHarfBuzzBranch(settings, env, laterThrows) ==
  IF ~env.shaper.obj
    THEN Outcome(PreviewSvg(4000, 1000,
                            Notice("notReady", "UniversalTextShaper not ready", settings)),
                 FALSE, FALSE, FALSE, "notCalled")
    ELSE LET fontScript == IF HasHebrew(settings.text) THEN "hebrew" ELSE "latin"
             shapingResult == ShapeText(env.shaper, settings.text, settings.fontSize,
                                        settings.direction, 0, 0, fontScript,
                                        env.bidi, laterThrows)
         IN IF shapingResult.exc # ""
              THEN Outcome(PreviewSvg(4000, 1000,
                                      Notice("error", shapingResult.exc, settings)),
                           FALSE, FALSE, FALSE, ShaperStatus(env.shaper))
              ELSE Outcome(PreviewSvg(Max(shapingResult.totalWidth + 200, 1000),
                                      Max(shapingResult.totalHeight + 200,
                                          settings.fontSize * 15),
                                      RenderHarfBuzzSVGPath(settings, env, laterThrows)),
                           FALSE, TRUE, FALSE, ShaperStatus(env.shaper))

\* the other display modes
RenderOtherModes(settings, positions) ==
  LET n == Len(positions)
      totalWidth == IF settings.displayMode = "entire"
                      THEN Max(Len(settings.text) * settings.fontSize * 6, 2000)
                      ELSE Max(IF n > 0 THEN positions[n].x + positions[n].width ELSE 10,
                               10)
      maxHeight  == settings.fontSize * 15
      svgContent == IF settings.displayMode = "svg"
                      THEN RenderSVGPath(positions, settings)
                    ELSE IF settings.displayMode = "entire"
                      THEN RenderEntireText(settings)
                    ELSE RenderTextCharacters(positions, settings)
  IN Outcome(PreviewSvg(totalWidth, maxHeight, svgContent), FALSE, FALSE, FALSE,
             "notCalled")

\* renderSVG from its bidi try block on: the visual order, the positions,
\* then the branch of the display mode.  With bidiProcessor null the first
\* engine call raises a TypeError inside the try block.
RenderNonEmpty(settings, env, bidiThrows, laterThrows, old) ==
  IF ~env.bidi \/ bidiThrows
    THEN Outcome(PreviewMessage("Error processing bidirectional text"),
                 FALSE, FALSE, env.bidi /\ bidiThrows, "notCalled")
  ELSE LET visualOrder == ApplySegments(IdentityOrder(Len(settings.text)),
                                        GetReorderSegments(settings.text,
                                                           settings.direction))
           calc == IF settings.displayMode \in {"svg", "text"}
                     THEN CalculateCharacterPositions(settings.text, visualOrder,
                                                      settings.fontSize,
                                                      settings.letterSpacing, env.font)
                     ELSE [exc |-> "", positions |-> <<>>]
       IN IF calc.exc # ""
            THEN Outcome(old, TRUE, FALSE, FALSE, "notCalled")
          ELSE IF settings.displayMode = "harfbuzz"
            THEN RenderHarfBuzzBranch(settings, env, laterThrows)
          ELSE RenderOtherModes(settings, calc.positions)

\* renderSVG without its `if (!settings.text)` early return
RenderSettingsNoEmptyCheck(settings, env, bidiThrows, laterThrows, old) ==
  RenderNonEmpty(settings, env, bidiThrows, laterThrows, old)

\* renderSVG once getSettings() has run: `if (!settings.text)` first
RenderSettings(settings, env, bidiThrows, laterThrows, old) ==
  IF settings.text = <<>>
    THEN Outcome(PreviewCleared, FALSE, FALSE, FALSE, "notCalled")
    ELSE RenderNonEmpty(settings, env, bidiThrows, laterThrows, old)

\* renderSVG without its `if (!font)` early return
RenderSVGNoFontCheck(settings, env, bidiThrows, laterThrows, old) ==
  IF ~env.bidi
    THEN Outcome(PreviewMessage("Bidi library not available."), FALSE, FALSE, FALSE,
                 "notCalled")
    ELSE RenderSettings(settings, env, bidiThrows, laterThrows, old)

\* renderSVG(): settings is what getSettings() would read from the form
RenderSVG(settings, env, bidiThrows, laterThrows, old) ==
  IF ~env.font
    THEN Outcome(PreviewMessage("Font not loaded."), FALSE, FALSE, FALSE, "notCalled")
  ELSE IF ~env.bidi
    THEN Outcome(PreviewMessage("Bidi library not available."), FALSE, FALSE, FALSE,
                 "notCalled")
  ELSE RenderSettings(settings, env, bidiThrows, laterThrows, old)

\* ================================================================ state
VARIABLES
  font,            \* `font`: TRUE once opentype.load delivered the Latin font
  hebrewFont,      \* `hebrewFont`
  bidiProcessor,   \* `bidiProcessor`: TRUE once bidi_js() was stored
  hb,              \* `hb`: TRUE once hbjs(hbmodule) was stored
  universalShaper, \* `universalShaper`: a shaper record, obj = FALSE for null
  pending,         \* the page events and promises still to be delivered
  polling,         \* a setTimeout(checkHarfBuzz, 100) is armed
  initPc,          \* where initializeUniversalShaper stands
  renderPc,        \* "idle", or "await" while renderSVG awaits the path renderer
  resume,          \* the preview renderSVG writes when its await resumes
  preview,         \* the content of #svg-preview-area
  rendered,        \* history of the last renderSVG call: what it was given
  form,            \* the values of the form controls (SpecRender keeps them fixed)
  oracle,          \* how the bidi engine answers (SpecRender keeps it fixed)
  sl,              \* the shapeLine call in progress, or the last one
  engineLive,      \* HarfBuzz objects created and not destroyed
  slCalls,         \* shapeLine calls made so far
  calc             \* the call examined on its own (its inputs and what it
                   \* returned), or the render a click replaced

vars == <<font, hebrewFont, bidiProcessor, hb, universalShaper, pending, polling,
          initPc, renderPc, resume, preview, rendered, form, oracle, sl, engineLive,
          slCalls, calc>>

page == <<font, hebrewFont, bidiProcessor, hb, universalShaper, pending, polling,
          initPc>>

shaping == <<sl, engineLive, slCalls>>

Handles == {"blob", "face", "font", "buffer"}

\* no shapeLine call yet
NoCall ==
  [pc |-> "idle", exit |-> "none", text |-> <<>>, returnPaths |-> FALSE, i |-> 0,
   emptyPaths |-> 0,
   state |-> [h \in Handles |-> "none"], destroys |-> [h \in Handles |-> 0],
   order |-> <<>>, usedAfterDestroy |-> {}, liveBefore |-> 0]

\* no call examined yet
NoCalc == [op |-> "idle"]

DefaultSettings ==
  [text |-> <<>>, fontSize |-> 30, letterSpacing |-> 0, direction |-> "ltr",
   displayMode |-> "text"]

\* the module-level handles a render reads
Env ==
  [font |-> font, hebrewFont |-> hebrewFont, bidi |-> bidiProcessor,
   shaper |-> universalShaper]

Init ==
  /\ font = FALSE
  /\ hebrewFont = FALSE
  /\ bidiProcessor = FALSE
  /\ hb = FALSE
  /\ universalShaper = NullShaper
  /\ pending = {"fontLoad", "hebrewFontLoad", "windowLoad", "universalTextShaperReady"}
  /\ polling = FALSE
  /\ initPc = "idle"
  /\ renderPc = "idle"
  /\ resume = PreviewInitial
  /\ preview = PreviewInitial
  /\ rendered = [called |-> FALSE, settings |-> DefaultSettings, font |-> FALSE,
                 bidi |-> FALSE, shaper |-> "null", bidiThrew |-> FALSE,
                 threw |-> FALSE, shapedOn |-> "notCalled"]
  /\ form = DefaultSettings
  /\ oracle = [bidiThrows |-> FALSE, laterThrows |-> FALSE]
  /\ sl = NoCall
  /\ engineLive = 0
  /\ slCalls = 0
  /\ calc = NoCalc

\* an event loop that starts a task while the continuation of renderSVG's
\* await is still waiting
TaskMayStartAnyTime == TRUE

\* A task of the event loop starts only when no microtask is left: the
\* continuation of renderSVG's await runs before any other event.
TaskMayStart == renderPc = "idle"

\* opentype.load(fontUrl, callback)
FontLoaded ==
  /\ TaskMayStart
  /\ "fontLoad" \in pending
  /\ \E err \in BOOLEAN : font' = ~err
  /\ pending' = pending \ {"fontLoad"}
  /\ UNCHANGED <<calc, hebrewFont, bidiProcessor, hb, universalShaper, polling, initPc,
                 renderPc, resume, preview, rendered, form, oracle, shaping>>

\* opentype.load(hebrewFontUrl, callback)
HebrewFontLoaded ==
  /\ TaskMayStart
  /\ "hebrewFontLoad" \in pending
  /\ \E err \in BOOLEAN : hebrewFont' = ~err
  /\ pending' = pending \ {"hebrewFontLoad"}
  /\ UNCHANGED <<calc, font, bidiProcessor, hb, universalShaper, polling, initPc,
                 renderPc, resume, preview, rendered, form, oracle, shaping>>

\* the two 'load' listeners of window: bidi_js() if the library is there,
\* createHarfBuzz() if hb.js is there
WindowLoad ==
  /\ TaskMayStart
  /\ "windowLoad" \in pending
  /\ \E bidiDefined \in BOOLEAN, createHarfBuzzDefined \in BOOLEAN :
       /\ bidiProcessor' = bidiDefined
       /\ pending' = (pending \ {"windowLoad"})
                       \cup (IF createHarfBuzzDefined THEN {"createHarfBuzz"} ELSE {})
  /\ UNCHANGED <<calc, font, hebrewFont, hb, universalShaper, polling, initPc,
                 renderPc, resume, preview, rendered, form, oracle, shaping>>

\* createHarfBuzz().then(...).catch(...): hb is stored when the promise
\* resolves and hbjs is defined
CreateHarfBuzzSettled ==
  /\ TaskMayStart
  /\ "createHarfBuzz" \in pending
  /\ \E resolved \in BOOLEAN, hbjsDefined \in BOOLEAN :
       hb' = (resolved /\ hbjsDefined)
  /\ pending' = pending \ {"createHarfBuzz"}
  /\ UNCHANGED <<calc, font, hebrewFont, bidiProcessor, universalShaper, polling, initPc,
                 renderPc, resume, preview, rendered, form, oracle, shaping>>

\* initializeUniversalShaper() up to its first await: the new shaper is
\* stored before initialize() has run
StartInitialize ==
  /\ universalShaper' = NewShaper
  /\ initPc' = "awaitInitialize"

\* the 'universalTextShaperReady' listener
UniversalTextShaperReady ==
  /\ TaskMayStart
  /\ "universalTextShaperReady" \in pending
  /\ pending' = pending \ {"universalTextShaperReady"}
  /\ IF hb THEN StartInitialize /\ UNCHANGED polling
           ELSE polling' = TRUE /\ UNCHANGED <<universalShaper, initPc>>
  /\ UNCHANGED <<calc, font, hebrewFont, bidiProcessor, hb, renderPc, resume, preview,
                 rendered, form, oracle, shaping>>

\* a poll whose timer keeps running after it has called
\* initializeUniversalShaper()
CheckHarfBuzzTimerKept ==
  /\ TaskMayStart
  /\ polling
  /\ IF hb THEN StartInitialize /\ UNCHANGED polling
           ELSE UNCHANGED <<universalShaper, initPc, polling>>
  /\ UNCHANGED <<calc, font, hebrewFont, bidiProcessor, hb, pending, renderPc, resume,
                 preview, rendered, form, oracle, shaping>>

\* checkHarfBuzz run by its timer
CheckHarfBuzz ==
  /\ TaskMayStart
  /\ polling
  /\ IF hb THEN StartInitialize /\ polling' = FALSE
           ELSE UNCHANGED <<universalShaper, initPc, polling>>
  /\ UNCHANGED <<calc, font, hebrewFont, bidiProcessor, hb, pending, renderPc, resume,
                 preview, rendered, form, oracle, shaping>>

\* await universalShaper.initialize() settles
InitializeSettled ==
  /\ TaskMayStart
  /\ initPc = "awaitInitialize"
  /\ \E resolved \in BOOLEAN :
       IF resolved
         THEN universalShaper' = Initialized(universalShaper)
              /\ initPc' = "awaitLatinBuffer"
         ELSE universalShaper' = NullShaper /\ initPc' = "failed"
  /\ UNCHANGED <<calc, font, hebrewFont, bidiProcessor, hb, pending, polling, renderPc,
                 resume, preview, rendered, form, oracle, shaping>>

\* await createFontBuffer(<latin font>) settles
LatinBufferSettled ==
  /\ TaskMayStart
  /\ initPc = "awaitLatinBuffer"
  /\ \E resolved \in BOOLEAN :
       IF resolved
         THEN initPc' = "awaitHebrewBuffer" /\ UNCHANGED universalShaper
         ELSE universalShaper' = NullShaper /\ initPc' = "failed"
  /\ UNCHANGED <<calc, font, hebrewFont, bidiProcessor, hb, pending, polling, renderPc,
                 resume, preview, rendered, form, oracle, shaping>>

\* await createFontBuffer(<hebrew font>) settles, then both loadFont calls
HebrewBufferSettled ==
  /\ TaskMayStart
  /\ initPc = "awaitHebrewBuffer"
  /\ \E resolved \in BOOLEAN :
       LET latin  == LoadFont(universalShaper, "latinBuffer", "latin", TRUE)
           hebrew == LoadFont(latin.shaper, "hebrewBuffer", "hebrew", FALSE)
       IN IF resolved /\ latin.exc = "" /\ hebrew.exc = ""
            THEN universalShaper' = hebrew.shaper /\ initPc' = "done"
            ELSE universalShaper' = NullShaper /\ initPc' = "failed"
  /\ UNCHANGED <<calc, font, hebrewFont, bidiProcessor, hb, pending, polling, renderPc,
                 resume, preview, rendered, form, oracle, shaping>>

\* renderSVG() up to its return or its await, for the form values
\* `settings` and an engine that throws as bidiThrows (in renderSVG's try
\* block) and laterThrows (in the calls made after it) tell
DoRender(settings, bidiThrows, laterThrows) ==
  LET out == RenderSVG(settings, Env, bidiThrows, laterThrows, preview)
  IN /\ rendered' = [called |-> TRUE, settings |-> settings, font |-> font,
                     bidi |-> bidiProcessor,
                     shaper |-> ShaperStatus(universalShaper),
                     bidiThrew |-> out.bidiThrew, threw |-> out.threw,
                     shapedOn |-> out.shapedOn]
     /\ IF out.awaited
          THEN renderPc' = "await" /\ resume' = out.preview /\ UNCHANGED preview
          ELSE preview' = out.preview /\ UNCHANGED <<renderPc, resume>>

\* a click on #render-btn, whatever the form holds at that moment
RenderClick ==
  /\ TaskMayStart
  /\ \E settings \in ClickSettings, bidiThrows \in BOOLEAN, laterThrows \in BOOLEAN :
       DoRender(settings, bidiThrows, laterThrows)
  /\ UNCHANGED <<calc, page, form, oracle, shaping>>

\* the continuation of `svgContent = await renderHarfBuzzSVGPath(settings)`:
\* the <svg> is written to the preview area
RenderResume ==
  /\ renderPc = "await"
  /\ preview' = resume
  /\ renderPc' = "idle"
  /\ resume' = PreviewInitial
  /\ UNCHANGED <<calc, page, form, oracle, rendered, shaping>>

Next ==
  \/ FontLoaded
  \/ HebrewFontLoaded
  \/ WindowLoad
  \/ CreateHarfBuzzSettled
  \/ UniversalTextShaperReady
  \/ CheckHarfBuzz
  \/ InitializeSettled
  \/ LatinBufferSettled
  \/ HebrewBufferSettled
  \/ RenderClick
  \/ RenderResume

Spec == Init /\ [][Next]_vars

\* The page under a fair event loop: a timer that is due is run when the
\* loop is free to start a task, however often clicks keep it busy in
\* between (setTimeout(checkHarfBuzz, 100)), and the continuation of
\* renderSVG's await is run as soon as it is queued.
SpecFair == Spec /\ SF_vars(CheckHarfBuzz) /\ WF_vars(RenderResume)

\* --------------------------------------------- renderSVG as a function
\* One page state, one set of form values and one engine behaviour, drawn
\* at the start; the only events are clicks on #render-btn.
LoadedShaper ==
  LoadFont(LoadFont(Initialized(NewShaper), "latinBuffer", "latin", TRUE).shaper,
           "hebrewBuffer", "hebrew", FALSE).shaper

\* the form with #font-size at the end of its range (max="120"), a text
\* of MaxLen letters and the HarfBuzz display mode
MaxFontSize == 120

WideSettings ==
  [text : {text \in Texts : Len(text) = MaxLen}, fontSize : {MaxFontSize},
   letterSpacing : {0}, direction : {"ltr"}, displayMode : {"harfbuzz"}]

InitRender ==
  /\ font \in BOOLEAN
  /\ hebrewFont \in BOOLEAN
  /\ bidiProcessor \in BOOLEAN
  /\ universalShaper \in {NullShaper, NewShaper, Initialized(NewShaper), LoadedShaper}
  /\ hb = universalShaper.obj
  /\ pending = {}
  /\ polling = FALSE
  /\ initPc = "idle"
  /\ renderPc = "idle"
  /\ resume = PreviewInitial
  /\ preview = PreviewInitial
  /\ rendered = [called |-> FALSE, settings |-> DefaultSettings, font |-> FALSE,
                 bidi |-> FALSE, shaper |-> "null", bidiThrew |-> FALSE,
                 threw |-> FALSE, shapedOn |-> "notCalled"]
  /\ form \in Settings \cup WideSettings
  /\ oracle \in [bidiThrows : BOOLEAN, laterThrows : BOOLEAN]
  /\ sl = NoCall
  /\ engineLive = 0
  /\ slCalls = 0
  /\ calc = NoCalc

\* a click on #render-btn with the form and the engine as drawn
RenderForm ==
  /\ TaskMayStart
  /\ DoRender(form, oracle.bidiThrows, oracle.laterThrows)
  /\ UNCHANGED <<calc, page, form, oracle, shaping>>

NextRender ==
  \/ RenderForm
  \/ RenderResume

SpecRender == InitRender /\ [][NextRender]_vars

\* ------------------------------------------- shapeLine, statement by statement
\* One call of UniversalTextShaper.shapeLine at a time, on an initialised
\* shaper; the engine may raise an exception in addText, shape, json,
\* glyphToPath and glyphToJson.
MaxCalls == 2

\* the HarfBuzz object the statement at pc creates or destroys
HandleAt(pc) ==
  IF pc \in {"createBlob", "destroyBlob"} THEN "blob"
  ELSE IF pc \in {"createFace", "destroyFace"} THEN "face"
  ELSE IF pc \in {"createFont", "destroyFont"} THEN "font"
  ELSE "buffer"

\* the statement after the one at pc on the normal path
NextPc(pc) ==
  CASE pc = "createBlob"    -> "createFace"
    [] pc = "createFace"    -> "createFont"
    [] pc = "createFont"    -> "setScale"
    [] pc = "setScale"      -> "createBuffer"
    [] pc = "createBuffer"  -> "addText"
    [] pc = "addText"       -> "setProperties"
    [] pc = "setProperties" -> "shape"
    [] pc = "shape"         -> "json"
    [] pc = "json"          -> "glyphs"
    [] pc = "glyphs"        -> "destroyBuffer"
    [] pc = "destroyBuffer" -> "destroyFont"
    [] pc = "destroyFont"   -> "destroyFace"
    [] pc = "destroyFace"   -> "destroyBlob"
    [] pc = "destroyBlob"   -> "return"
    [] OTHER                -> "idle"

\* the HarfBuzz objects the statement at pc calls or reads
UsedAt(pc) ==
  CASE pc = "createFace"    -> {"blob"}
    [] pc = "createFont"    -> {"face"}
    [] pc = "setScale"      -> {"face", "font"}
    [] pc = "addText"       -> {"buffer"}
    [] pc = "setProperties" -> {"buffer"}
    [] pc = "shape"         -> {"font", "buffer"}
    [] pc = "json"          -> {"buffer"}
    [] pc = "glyphs"        -> {"font"}
    [] pc = "return"        -> {"face"}
    [] OTHER                -> {}

\* the record of the call after the statement at its pc has used its objects
Used(call) ==
  [call EXCEPT !.usedAfterDestroy =
     @ \cup {h \in UsedAt(call.pc) : call.state[h] = "destroyed"}]

\* an exception leaves shapeLine at once
Thrown(call) == [Used(call) EXCEPT !.pc = "idle", !.exit = "threw"]

InitShapeLine ==
  /\ font = TRUE
  /\ hebrewFont = TRUE
  /\ bidiProcessor = TRUE
  /\ hb = TRUE
  /\ universalShaper \in {Initialized(NewShaper), LoadedShaper}
  /\ pending = {}
  /\ polling = FALSE
  /\ initPc = "idle"
  /\ renderPc = "idle"
  /\ resume = PreviewInitial
  /\ preview = PreviewInitial
  /\ rendered = [called |-> FALSE, settings |-> DefaultSettings, font |-> FALSE,
                 bidi |-> FALSE, shaper |-> "null", bidiThrew |-> FALSE,
                 threw |-> FALSE, shapedOn |-> "notCalled"]
  /\ form = DefaultSettings
  /\ oracle = [bidiThrows |-> FALSE, laterThrows |-> FALSE]
  /\ sl = NoCall
  /\ engineLive = 0
  /\ slCalls = 0
  /\ calc = NoCalc

\* shapeLine(text, options) is entered: the font data is looked up
ShapeLineCall ==
  /\ sl.pc = "idle"
  /\ slCalls < MaxCalls
  /\ slCalls' = slCalls + 1
  /\ \E text \in Texts \ {<<>>}, fontScript \in Scripts, returnPaths \in BOOLEAN :
       LET fontData == IF universalShaper.fonts[fontScript] # "none"
                         THEN universalShaper.fonts[fontScript]
                         ELSE universalShaper.fallbackFont
           call == [NoCall EXCEPT !.text = text, !.returnPaths = returnPaths,
                                  !.liveBefore = engineLive]
       IN sl' = IF fontData = "none"
                  THEN [call EXCEPT !.exit = "threw"]
                  ELSE [call EXCEPT !.pc = "createBlob"]
  /\ UNCHANGED <<calc, page, renderPc, resume, preview, rendered, form, oracle, engineLive>>

\* hb.createBlob, hb.createFace, hb.createFont, hb.createBuffer
CreateObject ==
  /\ sl.pc \in {"createBlob", "createFace", "createFont", "createBuffer"}
  /\ sl' = [Used(sl) EXCEPT !.state[HandleAt(sl.pc)] = "live", !.pc = NextPc(sl.pc)]
  /\ engineLive' = engineLive + 1
  /\ UNCHANGED <<calc, page, renderPc, resume, preview, rendered, form, oracle, slCalls>>

\* font.setScale(face.upem, face.upem); buffer.setDirection, setScript,
\* setLanguage, guessSegmentProperties
Configure ==
  /\ sl.pc \in {"setScale", "setProperties"}
  /\ sl' = [Used(sl) EXCEPT !.pc = NextPc(sl.pc)]
  /\ UNCHANGED <<calc, page, renderPc, resume, preview, rendered, form, oracle, engineLive,
                 slCalls>>

\* buffer.addText(text), hb.shape(font, buffer, features), buffer.json():
\* each returns or raises
EngineCall ==
  /\ sl.pc \in {"addText", "shape", "json"}
  /\ \E throws \in BOOLEAN :
       sl' = IF throws THEN Thrown(sl)
             ELSE [Used(sl) EXCEPT !.pc = NextPc(sl.pc), !.i = 0]
  /\ UNCHANGED <<calc, page, renderPc, resume, preview, rendered, form, oracle, engineLive,
                 slCalls>>

\* shapedGlyphs.map(...): for glyph i, with returnPaths, font.glyphToPath
\* and font.glyphToJson inside a try whose catch stores an empty path;
\* after the last glyph the total advance is summed
GlyphPaths ==
  /\ sl.pc = "glyphs"
  /\ \E throws \in BOOLEAN :
       sl' = IF sl.i >= Len(sl.text) THEN [sl EXCEPT !.pc = NextPc(sl.pc)]
             ELSE IF ~sl.returnPaths THEN [sl EXCEPT !.i = @ + 1]
             ELSE IF throws THEN [Used(sl) EXCEPT !.i = @ + 1, !.emptyPaths = @ + 1]
             ELSE [Used(sl) EXCEPT !.i = @ + 1]
  /\ UNCHANGED <<calc, page, renderPc, resume, preview, rendered, form, oracle, engineLive,
                 slCalls>>

\* buffer.destroy(); font.destroy(); face.destroy(); blob.destroy()
DestroyObject ==
  /\ sl.pc \in {"destroyBuffer", "destroyFont", "destroyFace", "destroyBlob"}
  /\ sl' = [sl EXCEPT !.state[HandleAt(sl.pc)] = "destroyed",
                      !.destroys[HandleAt(sl.pc)] = @ + 1,
                      !.order = Append(@, HandleAt(sl.pc)),
                      !.pc = NextPc(sl.pc)]
  /\ engineLive' = engineLive - 1
  /\ UNCHANGED <<calc, page, renderPc, resume, preview, rendered, form, oracle, slCalls>>

\* return { ..., width: totalWidth * fontSize / face.upem, ... }
ShapeLineReturn ==
  /\ sl.pc = "return"
  /\ sl' = [Used(sl) EXCEPT !.pc = "idle", !.exit = "returned"]
  /\ UNCHANGED <<calc, page, renderPc, resume, preview, rendered, form, oracle, engineLive,
                 slCalls>>

NextShapeLine ==
  \/ ShapeLineCall
  \/ CreateObject
  \/ Configure
  \/ EngineCall
  \/ GlyphPaths
  \/ DestroyObject
  \/ ShapeLineReturn

SpecShapeLine == InitShapeLine /\ [][NextShapeLine]_vars

\* ------------------------------------------- the visual order on its own
\* processTextForBidi(text, direction) for a text, a direction and an
\* engine behaviour drawn at the call, and the loop over the reorder
\* segments for whatever list of in-range segments the engine hands over.
\* One call is examined in a behaviour.
MaxBidiLen == 4

MaxSegments == 2

\* the greatest text.length of the segment loop
MaxOrderLen == 7

BidiTexts == UNION {[1..n -> Chars] : n \in 0..MaxBidiLen}

\* the [start, end] pairs with 0 <= start <= end < n
SegmentsOf(n) == {se \in (0..(n - 1)) \X (0..(n - 1)) : se[1] <= se[2]}

SegmentLists(n) == UNION {[1..k -> SegmentsOf(n)] : k \in 0..MaxSegments}

InitBidi ==
  /\ font = TRUE
  /\ hebrewFont = TRUE
  /\ bidiProcessor \in BOOLEAN
  /\ hb = FALSE
  /\ universalShaper = NullShaper
  /\ pending = {}
  /\ polling = FALSE
  /\ initPc = "idle"
  /\ renderPc = "idle"
  /\ resume = PreviewInitial
  /\ preview = PreviewInitial
  /\ rendered = [called |-> FALSE, settings |-> DefaultSettings, font |-> FALSE,
                 bidi |-> FALSE, shaper |-> "null", bidiThrew |-> FALSE,
                 threw |-> FALSE, shapedOn |-> "notCalled"]
  /\ form = DefaultSettings
  /\ oracle = [bidiThrows |-> FALSE, laterThrows |-> FALSE]
  /\ sl = NoCall
  /\ engineLive = 0
  /\ slCalls = 0
  /\ calc = NoCalc

\* everything but calc
allButCalc == <<page, renderPc, resume, preview, rendered, form, oracle, shaping>>

\* processTextForBidi(text, direction)
ReorderText ==
  /\ calc.op = "idle"
  /\ \E text \in BidiTexts, direction \in Directions, bidiThrows \in BOOLEAN :
       LET visualOrder == ProcessTextForBidi(text, direction, bidiProcessor, bidiThrows)
       IN calc' = [op |-> "processTextForBidi", text |-> text,
                   direction |-> direction, bidiThrows |-> bidiThrows,
                   visualOrder |-> visualOrder,
                   visualText |-> IF Len(visualOrder) = Len(text)
                                    THEN VisualText(text, visualOrder) ELSE <<>>]
  /\ UNCHANGED allButCalc

\* let visualOrder = Array.from(...); reorderSegments.forEach(...)
ApplyReorderSegments ==
  /\ calc.op = "idle"
  /\ \E n \in 0..MaxOrderLen :
       \E reorderSegments \in SegmentLists(n) :
         calc' = [op |-> "reorderSegments", n |-> n, segments |-> reorderSegments,
                  visualOrder |-> ApplySegments(IdentityOrder(n), reorderSegments)]
  /\ UNCHANGED allButCalc

NextBidi ==
  \/ ReorderText
  \/ ApplyReorderSegments

SpecBidi == InitBidi /\ [][NextBidi]_vars

\* --------------------------------------------- one render after another
\* The page with everything loaded; the user moves the letter-spacing
\* slider or picks another display mode, and clicks #render-btn.  calc
\* remembers the render a click replaces.
InitForm ==
  /\ font = TRUE
  /\ hebrewFont = TRUE
  /\ bidiProcessor = TRUE
  /\ hb = TRUE
  /\ universalShaper = LoadedShaper
  /\ pending = {}
  /\ polling = FALSE
  /\ initPc = "done"
  /\ renderPc = "idle"
  /\ resume = PreviewInitial
  /\ preview = PreviewInitial
  /\ rendered = [called |-> FALSE, settings |-> DefaultSettings, font |-> FALSE,
                 bidi |-> FALSE, shaper |-> "null", bidiThrew |-> FALSE,
                 threw |-> FALSE, shapedOn |-> "notCalled"]
  /\ form \in Settings
  /\ oracle = [bidiThrows |-> FALSE, laterThrows |-> FALSE]
  /\ sl = NoCall
  /\ engineLive = 0
  /\ slCalls = 0
  /\ calc = NoCalc

\* the user moves #letter-spacing or picks another #display-mode
ChangeControl ==
  /\ TaskMayStart
  /\ \/ \E v \in LetterSpacings \ {form.letterSpacing} :
          form' = [form EXCEPT !.letterSpacing = v]
     \/ \E m \in DisplayModes \ {form.displayMode} :
          form' = [form EXCEPT !.displayMode = m]
  /\ UNCHANGED <<page, renderPc, resume, preview, rendered, oracle, shaping, calc>>

\* a click on #render-btn; the render it replaces is kept in calc
RenderFormAgain ==
  /\ TaskMayStart
  /\ DoRender(form, oracle.bidiThrows, oracle.laterThrows)
  /\ calc' = [op |-> "replaced", called |-> rendered.called,
              settings |-> rendered.settings, preview |-> preview]
  /\ UNCHANGED <<page, form, oracle, shaping>>

NextForm ==
  \/ ChangeControl
  \/ RenderFormAgain
  \/ RenderResume

SpecForm == InitForm /\ [][NextForm]_vars

\* ------------------------------------------- the shaper's calls on their own
\* shapeText on an initialised shaper for options drawn at the call, and
\* calculateActualBounds on the shaping result of that call or on a
\* shaping result handed over by a caller.
MaxBoundsLines == 2

MaxBoundsGlyphs == 2

\* pathJson objects that carry the extents of an outline
BoxExtents == [hasExtents |-> TRUE, xMin |-> 50, xMax |-> 500, yMin |-> -100, yMax |-> 700]

BoundsGlyphs ==
  [advanceX : {600}, offsetX : {0}, offsetY : {0}, path : {TRUE},
   pathJson : {NoExtents, BoxExtents}]

BoundsLines ==
  UNION {[text : {<<>>}, glyphs : [1..m -> BoundsGlyphs], width : {360},
          height : {300}, x : {0}, y : {0}] : m \in 0..MaxBoundsGlyphs}

\* the shaping results a caller hands to calculateActualBounds: any lines,
\* and a glyphs list that is empty or not, whatever the lines hold
BoundsInputs ==
  UNION {[exc : {""}, text : {<<>>}, direction : {"ltr"},
          lines : [1..k -> BoundsLines], totalWidth : {360}, totalHeight : {300},
          svgElements : {<<>>},
          glyphs : {<<>>, << [advanceX |-> 600, offsetX |-> 0, offsetY |-> 0,
                              path |-> TRUE, pathJson |-> NoExtents,
                              absoluteX |-> 0, absoluteY |-> 0] >>}]
         : k \in 0..MaxBoundsLines}

InitShaper ==
  /\ font = TRUE
  /\ hebrewFont = TRUE
  /\ bidiProcessor \in BOOLEAN
  /\ hb = TRUE
  /\ universalShaper \in {Initialized(NewShaper), LoadedShaper}
  /\ pending = {}
  /\ polling = FALSE
  /\ initPc = "idle"
  /\ renderPc = "idle"
  /\ resume = PreviewInitial
  /\ preview = PreviewInitial
  /\ rendered = [called |-> FALSE, settings |-> DefaultSettings, font |-> FALSE,
                 bidi |-> FALSE, shaper |-> "null", bidiThrew |-> FALSE,
                 threw |-> FALSE, shapedOn |-> "notCalled"]
  /\ form = DefaultSettings
  /\ oracle = [bidiThrows |-> FALSE, laterThrows |-> FALSE]
  /\ sl = NoCall
  /\ engineLive = 0
  /\ slCalls = 0
  /\ calc = NoCalc

\* texts of several lines: 'a' and the line feed, up to MaxLineChars
\* characters
MaxLineChars == 3

MultiLineTexts ==
  {t \in UNION {[1..n -> {"a", "\n"}] : n \in 1..MaxLineChars} :
     \E i \in 1..Len(t) : t[i] = "\n"}

\* universalShaper.shapeText(text, {fontSize, paragraphDirection, x: 0,
\* y: 0, lineHeight: 1.2, fontScript, returnPaths: true}); a text of
\* several lines is shaped with paragraphDirection 'ltr', for which
\* applyBidi returns the text as it is
ShapeTextCall ==
  /\ calc.op = "idle"
  /\ \E text \in Texts \cup MultiLineTexts, fontSize \in FontSizes,
        paragraphDirection \in Directions, fontScript \in Scripts :
       /\ text \in MultiLineTexts => paragraphDirection = "ltr"
       /\ calc' = [op |-> "shapeText", text |-> text, fontSize |-> fontSize,
                result |-> ShapeText(universalShaper, text, fontSize,
                                     paragraphDirection, 0, 0, fontScript,
                                     bidiProcessor, FALSE)]
  /\ UNCHANGED allButCalc

\* calculateActualBounds(shapingResult), as createSVG calls it on the
\* result of shapeText, or on a shaping result of the caller's
CalculateActualBoundsCall ==
  /\ calc.op \in {"idle", "shapeText"}
  /\ calc.op = "shapeText" => calc.result.exc = ""
  /\ \E shapingResult \in (IF calc.op = "shapeText" THEN {calc.result}
                                                    ELSE BoundsInputs) :
       calc' = [op |-> "calculateActualBounds", shapingResult |-> shapingResult,
                bounds |-> CalculateActualBounds(shapingResult)]
  /\ UNCHANGED allButCalc

NextShaper ==
  \/ ShapeTextCall
  \/ CalculateActualBoundsCall

SpecShaper == InitShaper /\ [][NextShaper]_vars

\* ------------------------------------------- the positioner on its own
\* calculateCharacterPositions(text, visualOrder, fontSize, letterSpacing)
\* for arguments drawn at the call: any list of indices into the text.
VisualOrders(text) ==
  UNION {[1..k -> 0..(Len(text) - 1)] : k \in 0..Len(text)}

InitPositions ==
  /\ font \in BOOLEAN
  /\ hebrewFont = FALSE
  /\ bidiProcessor = TRUE
  /\ hb = FALSE
  /\ universalShaper = NullShaper
  /\ pending = {}
  /\ polling = FALSE
  /\ initPc = "idle"
  /\ renderPc = "idle"
  /\ resume = PreviewInitial
  /\ preview = PreviewInitial
  /\ rendered = [called |-> FALSE, settings |-> DefaultSettings, font |-> FALSE,
                 bidi |-> FALSE, shaper |-> "null", bidiThrew |-> FALSE,
                 threw |-> FALSE, shapedOn |-> "notCalled"]
  /\ form = DefaultSettings
  /\ oracle = [bidiThrows |-> FALSE, laterThrows |-> FALSE]
  /\ sl = NoCall
  /\ engineLive = 0
  /\ slCalls = 0
  /\ calc = NoCalc

\* calculateCharacterPositions(text, visualOrder, fontSize, letterSpacing)
CalculateCharacterPositionsCall ==
  /\ calc.op = "idle"
  /\ \E text \in Texts, fontSize \in FontSizes, letterSpacing \in LetterSpacings :
       \E visualOrder \in VisualOrders(text) :
         LET out == CalculateCharacterPositions(text, visualOrder, fontSize,
                                                letterSpacing, font)
         IN calc' = [op |-> "calculateCharacterPositions", text |-> text,
                     visualOrder |-> visualOrder, fontSize |-> fontSize,
                     letterSpacing |-> letterSpacing, exc |-> out.exc,
                     positions |-> out.positions]
  /\ UNCHANGED allButCalc

NextPositions == CalculateCharacterPositionsCall

SpecPositions == InitPositions /\ [][NextPositions]_vars

\* ------------------------------------------- the shaper object on its own
\* One UniversalTextShaper from its construction on: initialize() with
\* its await, and loadFont and shapeText called in any state of the
\* object.  calc keeps the last call that returned or threw: its name, the
\* message of the Error it threw ("" if none) and the object before it.
FontBuffers == {"latinBuffer", "hebrewBuffer"}

InitObject ==
  /\ font = TRUE
  /\ hebrewFont = TRUE
  /\ bidiProcessor = TRUE
  /\ hb = TRUE
  /\ universalShaper = NewShaper
  /\ pending = {}
  /\ polling = FALSE
  /\ initPc = "idle"
  /\ renderPc = "idle"
  /\ resume = PreviewInitial
  /\ preview = PreviewInitial
  /\ rendered = [called |-> FALSE, settings |-> DefaultSettings, font |-> FALSE,
                 bidi |-> FALSE, shaper |-> "null", bidiThrew |-> FALSE,
                 threw |-> FALSE, shapedOn |-> "notCalled"]
  /\ form = DefaultSettings
  /\ oracle = [bidiThrows |-> FALSE, laterThrows |-> FALSE]
  /\ sl = NoCall
  /\ engineLive = 0
  /\ slCalls = 0
  /\ calc = [op |-> "new", exc |-> "", before |-> NewShaper]

allButObject ==
  <<font, hebrewFont, bidiProcessor, hb, pending, polling, renderPc, resume, preview,
    rendered, form, oracle, shaping>>

\* initialize() up to `await createHarfBuzz()`, or its throw when
\* createHarfBuzz is not defined
InitializeCall ==
  /\ initPc = "idle"
  /\ \E createHarfBuzzDefined \in BOOLEAN :
       IF createHarfBuzzDefined
         THEN initPc' = "awaitInitialize" /\ UNCHANGED calc
         ELSE /\ calc' = [op |-> "initialize", exc |-> "HarfBuzz not loaded",
                          before |-> universalShaper]
              /\ UNCHANGED initPc
  /\ UNCHANGED <<universalShaper, allButObject>>

\* initialize() after its await: the rejection of createHarfBuzz(), the
\* throw when hbjs is not defined, or this.hb = hbjs(hbModule);
\* this.isReady = true
InitializeResume ==
  /\ initPc = "awaitInitialize"
  /\ initPc' = "idle"
  /\ \E resolved \in BOOLEAN, hbjsDefined \in BOOLEAN :
       IF ~resolved
         THEN /\ calc' = [op |-> "initialize", exc |-> "createHarfBuzz rejected",
                          before |-> universalShaper]
              /\ UNCHANGED universalShaper
       ELSE IF ~hbjsDefined
         THEN /\ calc' = [op |-> "initialize", exc |-> "hbjs wrapper not loaded",
                          before |-> universalShaper]
              /\ UNCHANGED universalShaper
       ELSE /\ universalShaper' = Initialized(universalShaper)
            /\ calc' = [op |-> "initialize", exc |-> "", before |-> universalShaper]
  /\ UNCHANGED allButObject

\* loadFont(fontBuffer, script, isDefault)
LoadFontCall ==
  /\ \E fontBuffer \in FontBuffers, script \in Scripts, isDefault \in BOOLEAN :
       LET r == LoadFont(universalShaper, fontBuffer, script, isDefault)
       IN /\ universalShaper' = r.shaper
          /\ calc' = [op |-> "loadFont", exc |-> r.exc, before |-> universalShaper]
  /\ UNCHANGED <<initPc, allButObject>>

\* shapeText(text, {fontSize, paragraphDirection: 'ltr', fontScript}):
\* it assigns to no field of the object
ShapeTextOnObject ==
  /\ \E text \in {<<>>, <<"a">>}, fontScript \in Scripts :
       calc' = [op |-> "shapeText",
                exc |-> ShapeText(universalShaper, text, 30, "ltr", 0, 0, fontScript,
                                  bidiProcessor, FALSE).exc,
                before |-> universalShaper]
  /\ UNCHANGED <<universalShaper, initPc, allButObject>>

NextObject ==
  \/ InitializeCall
  \/ InitializeResume
  \/ LoadFontCall
  \/ ShapeTextOnObject

SpecObject == InitObject /\ [][NextObject]_vars

\* ================================================================ claims
\* the last renderSVG call has returned
RenderDone == rendered.called /\ renderPc = "idle"

\* the preview holds an <svg> with glyph or text output of a display mode
GlyphOutput ==
  /\ RenderDone
  /\ preview.kind = "svg"
  /\ preview.content.kind \in {"textChars", "path", "entire", "hbPaths"}

\* the preview shows a message to the user and no glyph or path
MessageShown ==
  \/ preview.kind = "message"
  \/ /\ preview.kind = "svg"
     /\ preview.content.kind \in {"notReady", "notice", "error"}

\* the OpenType.js font renderHarfBuzzSVGPath draws a character with
FontOfChar(ch) == IF IsHebrew(ch) THEN "hebrew" ELSE "latin"

RECURSIVE SumGlyphWidths(_, _)
SumGlyphWidths(els, fontSize) ==
  IF els = <<>> THEN 0
  ELSE GlyphWidth(FontOfChar(Head(els).ch), Head(els).ch, fontSize)
       + SumGlyphWidths(Tail(els), fontSize)

\* C1: in every display mode that places glyphs or text, the baseline y of
\* every placement is fontSize x 1.2 (12 tenths per unit of fontSize), the
\* HarfBuzz path renderer included.
C1_BaselineInEveryMode ==
  GlyphOutput =>
    \A i \in 1..Len(preview.content.els) :
      preview.content.els[i].y = rendered.settings.fontSize * 12

\* C2: every render that emits glyph output, in every display mode, has
\* the canvas height fontSize x 1.5.
C2_CanvasHeightInEveryMode ==
  GlyphOutput => preview.height = rendered.settings.fontSize * 15

\* C3: in HarfBuzz path mode the run is centred in the canvas width written
\* to the <svg>: the first glyph is at (canvasWidth - totalTextWidth) / 2
\* and each later glyph follows the one before it by that one's advance.
\* (Stated for runs in which no character was skipped.)
C3_HarfBuzzRunCentred ==
  (/\ GlyphOutput
   /\ preview.content.kind = "hbPaths"
   /\ Len(preview.content.els) = Len(rendered.settings.text))
  => LET els == preview.content.els
         fs  == rendered.settings.fontSize
     IN /\ 2 * els[1].x = preview.width - SumGlyphWidths(els, fs)
        /\ \A i \in 1..(Len(els) - 1) :
             els[i + 1].x = els[i].x + GlyphWidth(FontOfChar(els[i].ch), els[i].ch, fs)

\* C4: in every display mode the font size of the output (the font-size
\* attribute, the size given to glyph.getPath, and the size that scales
\* the advances between consecutive placements) is settings.fontSize as
\* read at the start of the render.
C4_FontSizeNeverRescaled ==
  (RenderDone /\ preview.kind = "svg") =>
    LET els  == preview.content.els
        kind == preview.content.kind
        fs   == rendered.settings.fontSize
    IN /\ \A i \in 1..Len(els) : els[i].size = fs
       /\ kind \in {"textChars", "path"} =>
            \A i \in 1..(Len(els) - 1) :
              els[i + 1].x - els[i].x
                = GlyphWidth("latin", els[i].ch, fs) + rendered.settings.letterSpacing
       /\ (kind = "hbPaths" /\ Len(els) = Len(rendered.settings.text)) =>
            \A i \in 1..(Len(els) - 1) :
              els[i + 1].x - els[i].x = GlyphWidth(FontOfChar(els[i].ch), els[i].ch, fs)

\* C4 witness: a HarfBuzz render of two outlined characters at size 50
C4_Witness ==
  /\ GlyphOutput
  /\ preview.content.kind = "hbPaths"
  /\ Len(preview.content.els) = 2
  /\ rendered.settings.fontSize = 50

\* C5: shapeText is invoked only on a shaper whose initialize() has
\* completed and whose fonts are loaded; a harfbuzz render with a shaper
\* in any other state takes the 'not ready' path.
C5_ShapeTextOnlyWhenReady ==
  RenderDone =>
    /\ rendered.shapedOn \in {"notCalled", "ready"}
    /\ (/\ rendered.settings.displayMode = "harfbuzz"
        /\ preview.kind = "svg"
        /\ rendered.shaper # "ready")
       => preview.content.kind = "notReady"

\* C6: with the font and the bidi processor ready and a non-empty text, a
\* render in a non-shaping mode produces its SVG output, whatever the state
\* of the shaping engine.
C6_NonShapingModesProceed ==
  (/\ RenderDone
   /\ rendered.font
   /\ rendered.bidi
   /\ rendered.settings.text # <<>>
   /\ rendered.settings.displayMode \in {"text", "svg", "entire"})
  => GlyphOutput

\* C8: when the bidi engine throws in renderSVG, the render still produces
\* the glyph output of the text, in identity order.
C8_BidiFailureFallsBack ==
  (RenderDone /\ rendered.bidiThrew) =>
    /\ GlyphOutput
    /\ rendered.settings.displayMode \in {"text", "svg"} =>
         \A i \in 1..Len(preview.content.els) :
           preview.content.els[i].ch = rendered.settings.text[i]

\* C9 as stated: with font null, bidiProcessor null or, in harfbuzz mode,
\* universalShaper null, renderSVG shows a message, emits no glyph or path
\* output and does not throw.
C9_DependencyMissingAsStated ==
  (/\ RenderDone
   /\ \/ ~rendered.font
      \/ ~rendered.bidi
      \/ rendered.settings.displayMode = "harfbuzz" /\ rendered.shaper = "null")
  => MessageShown /\ ~rendered.threw

\* C9 amended: the same, the shaper case for a non-empty text (an empty
\* text clears the preview before the shaper is looked at).
C9_DependencyMissing ==
  (/\ RenderDone
   /\ \/ ~rendered.font
      \/ ~rendered.bidi
      \/ /\ rendered.settings.displayMode = "harfbuzz"
         /\ rendered.shaper = "null"
         /\ rendered.settings.text # <<>>)
  => MessageShown /\ ~rendered.threw

\* C9 witness: a harfbuzz render of a text with the shaper null, answered
\* by the 'not ready' notice
C9_Witness ==
  /\ RenderDone
  /\ rendered.font /\ rendered.bidi
  /\ rendered.settings.displayMode = "harfbuzz"
  /\ rendered.shaper = "null"
  /\ rendered.settings.text # <<>>
  /\ preview.kind = "svg" /\ preview.content.kind = "notReady"

\* C10 as stated: whenever the text is empty, renderSVG raises nothing and
\* leaves the preview cleared, with no SVG and no message.
C10_EmptyTextAsStated ==
  (RenderDone /\ rendered.settings.text = <<>>) =>
    preview.kind = "cleared" /\ ~rendered.threw

\* C10 amended: the same when font and bidiProcessor are there (without
\* them renderSVG reports the missing dependency before it reads the text).
C10_EmptyTextClears ==
  (RenderDone /\ rendered.font /\ rendered.bidi /\ rendered.settings.text = <<>>) =>
    preview.kind = "cleared" /\ ~rendered.threw

\* C10 witness: a render of the empty text with both dependencies loaded
C10_Witness ==
  /\ RenderDone
  /\ rendered.font /\ rendered.bidi
  /\ rendered.settings.text = <<>>
  /\ preview.kind = "cleared"

\* shapeLine is not running and its last call has exited
ShapeLineExited == sl.pc = "idle" /\ sl.exit \in {"returned", "threw"}

\* C7: on every exit path of shapeLine, normal or by an exception of the
\* engine, each HarfBuzz object the call created has been destroyed exactly
\* once, and as many engine objects are live as before the call.
C7_HandlesReleasedOnEveryExit ==
  ShapeLineExited =>
    /\ \A h \in Handles : sl.state[h] # "none" =>
         sl.state[h] = "destroyed" /\ sl.destroys[h] = 1
    /\ engineLive = sl.liveBefore

\* the text has no character of a right-to-left script
PureLtr(text) == ~HasHebrew(text)

\* C11: for every pure left-to-right text with direction ltr, the visual
\* order processTextForBidi computes is the identity [0, 1, ..., n-1].
C11_PureLtrIsIdentity ==
  (/\ calc.op = "processTextForBidi"
   /\ PureLtr(calc.text)
   /\ calc.direction = "ltr")
  => calc.visualOrder = [i \in 1..Len(calc.text) |-> i - 1]

\* C11 witness: a pure left-to-right text of the greatest length, reordered
\* with direction ltr by an engine that is there and does not throw
C11_Witness ==
  /\ calc.op = "processTextForBidi"
  /\ bidiProcessor /\ ~calc.bidiThrows
  /\ PureLtr(calc.text) /\ Len(calc.text) = MaxBidiLen
  /\ calc.direction = "ltr"
  /\ calc.visualOrder = [i \in 1..MaxBidiLen |-> i - 1]

\* order holds every index of 0 .. n-1 exactly once
IsPermutation(order, n) ==
  /\ Len(order) = n
  /\ \A j \in 0..(n - 1) : Cardinality({i \in 1..n : order[i] = j}) = 1

\* C12: after any list of in-range reorder segments has been applied,
\* visualOrder is a permutation of 0 .. text.length - 1.
C12_VisualOrderIsPermutation ==
  calc.op = "reorderSegments" => IsPermutation(calc.visualOrder, calc.n)

\* C12 witness: two overlapping segments applied to three indices, leaving
\* an order that is not the identity
C12_Witness ==
  /\ calc.op = "reorderSegments"
  /\ calc.n = 3
  /\ calc.segments = << <<0, 1>>, <<1, 2>> >>
  /\ calc.visualOrder = <<1, 2, 0>>

\* the logical text rebuilt from a visual text and its visual order: the
\* character at visual position i goes back to index visualOrder[i]
LogicalText(visualText, visualOrder) ==
  [j \in 1..Len(visualOrder) |->
     IF \E i \in 1..Len(visualOrder) : visualOrder[i] = j - 1
       THEN visualText[CHOOSE i \in 1..Len(visualOrder) : visualOrder[i] = j - 1]
       ELSE "?"]

C17_PhysicalUnits ==
  preview.kind = "svg" =>
    /\ preview.unit = "mm"
    /\ preview.viewBox = <<0, 0, preview.width, preview.height>>

\* C17 witness: the <svg> of the shaper's error path, 400 mm x 100 mm
C17_Witness ==
  /\ RenderDone
  /\ preview.kind = "svg"
  /\ preview.content.kind = "error"
  /\ preview.width = 4000 /\ preview.height = 1000

\* the render in the preview and the render it replaced are of the same
\* form values, the controls in `controls` apart, and both wrote an <svg>
\* with the output of their display mode
TwoRenders(controls) ==
  /\ GlyphOutput
  /\ calc.op = "replaced" /\ calc.called
  /\ calc.preview.kind = "svg"
  /\ calc.preview.content.kind \in {"textChars", "path", "entire", "hbPaths"}
  /\ \A c \in (DOMAIN rendered.settings) \ controls :
       calc.settings[c] = rendered.settings[c]

\* C14: for a non-empty text and otherwise the same settings, the render
\* with the larger letterSpacing has a strictly larger totalWidth.
C14_SpacingWidensCanvas ==
  (/\ TwoRenders({"letterSpacing"})
   /\ rendered.settings.text # <<>>
   /\ calc.settings.letterSpacing < rendered.settings.letterSpacing)
  => calc.preview.width < preview.width

\* the typographic width a display mode feeds into its canvas width: the
\* end of the last position, the estimate of the whole line, or the
\* totalWidth of the shaping result
TypographicWidth(settings) ==
  IF settings.displayMode = "entire" THEN Len(settings.text) * settings.fontSize * 6
  ELSE IF settings.displayMode = "harfbuzz"
    THEN ShapeText(universalShaper, settings.text, settings.fontSize,
                   settings.direction, 0, 0,
                   IF HasHebrew(settings.text) THEN "hebrew" ELSE "latin",
                   bidiProcessor, FALSE).totalWidth
  ELSE LET positions == CalculateCharacterPositions(
                          settings.text,
                          ProcessTextForBidi(settings.text, settings.direction,
                                             bidiProcessor, FALSE),
                          settings.fontSize, settings.letterSpacing, font).positions
       IN positions[Len(positions)].x + positions[Len(positions)].width

\* baseline, canvas width and canvas height of an <svg> with placements
LayoutFrame(p) ==
  [baselineY |-> p.content.els[1].y, canvasWidth |-> p.width,
   canvasHeight |-> p.height]

\* C16: two renders of the same settings (the display mode apart) and the
\* same typographic width have the same baseline, canvas width and canvas
\* height, whichever display modes made them.
C16_FrameIsPureFunction ==
  (/\ TwoRenders({"displayMode"})
   /\ rendered.settings.text # <<>>
   /\ Len(preview.content.els) > 0 /\ Len(calc.preview.content.els) > 0
   /\ TypographicWidth(rendered.settings) = TypographicWidth(calc.settings))
  => LayoutFrame(preview) = LayoutFrame(calc.preview)

\* C18: for the same text and settings, per-character text mode and
\* outline-path mode emit one placement per visual position, in the same
\* order, at the same (x, y), on a canvas of the same width and height.
C18_TextAndPathModesAgree ==
  (/\ TwoRenders({"displayMode"})
   /\ {rendered.settings.displayMode, calc.settings.displayMode} = {"text", "svg"})
  => /\ Len(preview.content.els) = Len(rendered.settings.text)
     /\ Len(calc.preview.content.els) = Len(rendered.settings.text)
     /\ \A i \in 1..Len(preview.content.els) :
          /\ preview.content.els[i].ch = calc.preview.content.els[i].ch
          /\ preview.content.els[i].x = calc.preview.content.els[i].x
          /\ preview.content.els[i].y = calc.preview.content.els[i].y
     /\ preview.width = calc.preview.width
     /\ preview.height = calc.preview.height

\* C18 witness: a reordered two-letter text with letter spacing, first as
\* per-character text, then as an outline path
C18_Witness ==
  /\ TwoRenders({"displayMode"})
  /\ calc.settings.displayMode = "text" /\ rendered.settings.displayMode = "svg"
  /\ rendered.settings.text = <<"a", "b">>
  /\ rendered.settings.direction = "rtl"
  /\ rendered.settings.letterSpacing = 15
  /\ preview.content.els[2].x > 0

\* C15: calculateActualBounds returns no Infinity and no -Infinity in any
\* of x, y, width, height, minX, maxX, minY, maxY, for every shaping
\* result, those without glyphs or without lines included.
C15_BoundsAreFinite ==
  calc.op = "calculateActualBounds" =>
    \A f \in DOMAIN calc.bounds : calc.bounds[f].inf = 0

\* C15 witness: a shaping result whose glyphs list is not empty while its
\* lines hold no glyph, answered by the box of the typographic size
C15_Witness ==
  /\ calc.op = "calculateActualBounds"
  /\ Len(calc.shapingResult.glyphs) > 0
  /\ \A i \in 1..Len(calc.shapingResult.lines) :
       Len(calc.shapingResult.lines[i].glyphs) = 0
  /\ calc.bounds.width = Finite(calc.shapingResult.totalWidth)

\* the distance the placements of a line's glyphs cover: from line.x to
\* the end of the advance of its last glyph (in tenths)
PlacedWidth(result, line) ==
  LET last == result.glyphs[Len(result.glyphs)]
  IN last.absoluteX - last.offsetX * 10 + last.advanceX * 10 - line.x

\* C19: the placements combineLines produces are in the units of the
\* reported line width: for every shaped line the advances used for the
\* placement add up to line.width.
C19_PlacementsInUnitsOfWidth ==
  (/\ calc.op = "shapeText"
   /\ calc.result.exc = ""
   /\ Len(calc.result.lines) = 1)
  => PlacedWidth(calc.result, calc.result.lines[1]) = calc.result.lines[1].width

\* the character at visual position i of the last render, and whether
\* renderHarfBuzzSVGPath has no font for it
VisualChar(i) ==
  rendered.settings.text[
    ProcessTextForBidi(rendered.settings.text, rendered.settings.direction,
                       bidiProcessor, oracle.laterThrows)[i] + 1]

FontMissing(i) == IsHebrew(VisualChar(i)) /\ ~hebrewFont

\* where the cursor of the shaped rendering stands at visual position i:
\* 10 units, plus the advance of every character before i, the
\* placeholder 0.6 x fontSize for a character without a font
RECURSIVE CursorAt(_)
CursorAt(i) ==
  IF i = 1 THEN 100
  ELSE CursorAt(i - 1)
       + (IF FontMissing(i - 1) THEN rendered.settings.fontSize * 6
          ELSE GlyphWidth(FontOfChar(VisualChar(i - 1)), VisualChar(i - 1),
                          rendered.settings.fontSize))

\* C20: in the shaped rendering, a Hebrew character while hebrewFont is
\* null does not end the line: no outline is emitted for it, the cursor
\* moves on by 0.6 x fontSize, and every other character is emitted, in
\* visual order, at the position the cursor has reached.
C20_MissingFontKeepsLine ==
  (/\ GlyphOutput
   /\ preview.content.kind = "hbPaths"
   /\ ~hebrewFont)
  => LET n    == Len(rendered.settings.text)
         kept == {i \in 1..n : ~FontMissing(i)}
         els  == preview.content.els
     IN /\ Len(els) = Cardinality(kept)
        /\ \A i \in kept :
             LET k == Cardinality({j \in kept : j <= i})
             IN els[k].ch = VisualChar(i) /\ els[k].x = CursorAt(i)

\* C20 witness: a Hebrew letter followed by a Latin one, rendered in
\* harfbuzz mode without the Hebrew font: one outline, placed after the
\* placeholder advance
C20_Witness ==
  /\ GlyphOutput
  /\ preview.content.kind = "hbPaths"
  /\ ~hebrewFont
  /\ rendered.settings.text = <<"h", "a">>
  /\ Len(preview.content.els) = 1
  /\ preview.content.els[1].ch = "a"
  /\ preview.content.els[1].x = 100 + rendered.settings.fontSize * 6

\* C21: renders do not overlap.  While a render waits at its await, no
\* later click reads the settings: the next step is the completion of that
\* render, which writes its output; and whenever no render is in flight
\* the preview shows the output of the last click.
C21_RendersDoNotOverlap ==
  /\ [][renderPc = "await" =>
          /\ rendered' = rendered
          /\ renderPc' = "idle"
          /\ preview' = resume]_vars
  /\ [](RenderDone =>
          preview = RenderSVG(rendered.settings, Env, oracle.bidiThrows,
                              oracle.laterThrows, preview).preview)

\* C21 witness: a click in a non-shaping mode after a click whose render
\* went through the await of the shaped rendering; the preview shows the
\* output of the later click
C21_Witness ==
  /\ RenderDone
  /\ calc.op = "replaced" /\ calc.called
  /\ calc.settings.displayMode = "harfbuzz"
  /\ calc.settings.text # <<>>
  /\ calc.preview.content.kind = "hbPaths"
  /\ rendered.settings.displayMode = "text"
  /\ preview.content.kind = "textChars"

\* the visual position at which the index shown at position i (0-based)
\* after the first k segments stood before any segment was applied
RECURSIVE SourcePosition(_, _, _)
SourcePosition(segments, k, i) ==
  IF k = 0 THEN i
  ELSE LET start == segments[k][1]
           end   == segments[k][2]
       IN SourcePosition(segments, k - 1,
                         IF start <= i /\ i <= end THEN start + end - i ELSE i)

\* C22: the visual order is the identity with, for each segment (start,
\* end) in the order given, the current visualOrder[start..end] replaced by
\* its reverse; so a single segment (0, n-1) yields [n-1, ..., 0] and an
\* index no segment covers keeps visualOrder[i] = i.
C22_SegmentsReversedInOrder ==
  calc.op = "reorderSegments" =>
    LET n    == calc.n
        segs == calc.segments
    IN /\ Len(calc.visualOrder) = n
       /\ \A i \in 0..(n - 1) :
            calc.visualOrder[i + 1] = SourcePosition(segs, Len(segs), i)
       /\ segs = << <<0, n - 1>> >> =>
            \A i \in 0..(n - 1) : calc.visualOrder[i + 1] = n - 1 - i
       /\ \A i \in 0..(n - 1) :
            (\A k \in 1..Len(segs) : i < segs[k][1] \/ i > segs[k][2])
              => calc.visualOrder[i + 1] = i

\* C22 witness: seven characters and the one segment (3, 6)
C22_Witness ==
  /\ calc.op = "reorderSegments"
  /\ calc.n = 7
  /\ calc.segments = << <<3, 6>> >>
  /\ calc.visualOrder = <<0, 1, 2, 6, 5, 4, 3>>

\* the cursor before visual position i (1-based) of the call in calc: the
\* advances of the characters before it, scaled by fontSize / unitsPerEm
\* (1000 units per em), each followed by the letter spacing
RECURSIVE ExpectedX(_)
ExpectedX(i) ==
  IF i = 1 THEN 0
  ELSE ExpectedX(i - 1)
       + (AdvanceWidth("latin", calc.text[calc.visualOrder[i - 1] + 1])
            * calc.fontSize * 10) \div 1000
       + calc.letterSpacing

\* C23: calculateCharacterPositions returns one position per entry of
\* visualOrder, in increasing visual index, with originalIndex =
\* visualOrder[i], y = fontSize x 1.2, the first x = 0 and every x the sum
\* of advance + letterSpacing of the positions before it.
C23_PositionsFollowVisualOrder ==
  (calc.op = "calculateCharacterPositions" /\ calc.exc = "") =>
    /\ Len(calc.positions) = Len(calc.visualOrder)
    /\ \A i \in 1..Len(calc.positions) :
         /\ calc.positions[i].visualIndex = i - 1
         /\ calc.positions[i].originalIndex = calc.visualOrder[i]
         /\ calc.positions[i].char = calc.text[calc.visualOrder[i] + 1]
         /\ calc.positions[i].y = calc.fontSize * 12
         /\ calc.positions[i].x = ExpectedX(i)

\* C23 witness: two characters in reversed visual order with a letter
\* spacing, the second placed after the advance and spacing of the first
C23_Witness ==
  /\ calc.op = "calculateCharacterPositions" /\ calc.exc = ""
  /\ calc.text = <<"a", "b">>
  /\ calc.visualOrder = <<1, 0>>
  /\ calc.letterSpacing = 15 /\ calc.fontSize = 30
  /\ calc.positions[1].x = 0
  /\ calc.positions[2].x = 210 + 15

\* whether no glyph contributes a bound to calculateActualBounds: the
\* glyphs list is empty, or no line holds a glyph
NoGlyphContributes(shapingResult) ==
  \/ Len(shapingResult.glyphs) = 0
  \/ \A i \in 1..Len(shapingResult.lines) : Len(shapingResult.lines[i].glyphs) = 0

LineCount(text) == Cardinality({i \in 1..Len(text) : text[i] = "\n"}) + 1

\* C25: for a text of several lines the totalHeight of shapeText is
\* line count x font size x line height (1.2), the line count being the
\* number of lines of the text (in tenths: x 12).
C25_TotalHeightOfLines ==
  (/\ calc.op = "shapeText"
   /\ calc.result.exc = ""
   /\ LineCount(calc.text) >= 2)
  => calc.result.totalHeight = LineCount(calc.text) * calc.fontSize * 12

\* C26: isReady is true only after initialize() has completed
\* successfully: it turns true only in the step in which initialize()
\* returns without an Error, isReady implies hb is set, and an initialize()
\* that throws leaves isReady as it was (false on a shaper never
\* initialised); loadFont and shapeText called while isReady is false throw
\* 'Must call initialize() first' and leave fonts, fallbackFont and isReady
\* unchanged.
C26_ReadyOnlyAfterInitialize ==
  /\ [][(universalShaper'.isReady /\ ~universalShaper.isReady)
          => (calc'.op = "initialize" /\ calc'.exc = "")]_vars
  /\ [](universalShaper.isReady => universalShaper.hb)
  /\ []((calc.op = "initialize" /\ calc.exc # "")
          => universalShaper.isReady = calc.before.isReady)
  /\ []((calc.op \in {"loadFont", "shapeText"} /\ ~calc.before.isReady)
          => /\ calc.exc = "Must call initialize() first"
             /\ universalShaper.fonts = calc.before.fonts
             /\ universalShaper.fallbackFont = calc.before.fallbackFont
             /\ universalShaper.isReady = calc.before.isReady)

\* C26 witness: loadFont called while initialize() is still awaiting
\* createHarfBuzz(): it throws and the object is as it was
C26_Witness ==
  /\ calc.op = "loadFont"
  /\ initPc = "awaitInitialize"
  /\ ~calc.before.isReady
  /\ calc.exc = "Must call initialize() first"
  /\ universalShaper = NewShaper

\* C27: after any sequence of loadFont calls on an initialised shaper,
\* fallbackFont is set exactly when the fonts map is not empty, and
\* fallbackFont is one of the font buffers the fonts map holds, also after
\* a later loadFont has overwritten the entry of a script.
C27_FallbackIsStoredFont ==
  universalShaper.isReady =>
    /\ (universalShaper.fallbackFont # "none")
         <=> (\E sc \in Scripts : universalShaper.fonts[sc] # "none")
    /\ universalShaper.fallbackFont # "none"
         => \E sc \in Scripts : universalShaper.fonts[sc] = universalShaper.fallbackFont

\* C28: after the universalTextShaperReady event,
\* initializeUniversalShaper is invoked only while hb is set and at most
\* once (once invoked, the poll is off and the event is consumed, and the
\* initialisation never returns to its start); the polling stops only in
\* a step in which hb is set, so it never ends while hb stays null; and
\* once hb is set and the event has been delivered, the invocation
\* eventually happens and the polling is off.
C28_PollingInvokesOnce ==
  /\ [][(initPc' = "awaitInitialize" /\ initPc # "awaitInitialize")
          => (hb /\ initPc = "idle")]_vars
  /\ [][initPc # "idle" => initPc' # "idle"]_vars
  /\ [](initPc # "idle" => (~polling /\ "universalTextShaperReady" \notin pending))
  /\ [][(polling /\ ~polling') => (hb /\ initPc' = "awaitInitialize")]_vars
  /\ (hb /\ "universalTextShaperReady" \notin pending) ~> (initPc # "idle" /\ ~polling)

\* C28 witness: the listener found hb null and started the poll, and hb
\* has been set since: the next run of checkHarfBuzz makes the invocation
C28_Witness ==
  /\ polling
  /\ hb
  /\ initPc = "idle"
  /\ "universalTextShaperReady" \notin pending

\* C29: within shapeLine no HarfBuzz handle (blob, face, font, buffer) is
\* read or used after its destroy() has been called, and a call that
\* returns has destroyed the handles in the reverse order of their
\* creation: buffer, font, face, blob.
C29_NoUseAfterDestroy ==
  /\ sl.usedAfterDestroy = {}
  /\ sl.exit = "returned" => sl.order = <<"buffer", "font", "face", "blob">>

\* the right edge of the run renderHarfBuzzSVGPath lays out for the last
\* render: its start x = 10 plus the advance of every character from
\* character i on, 0.6 x fontSize for a character without its font (in
\* tenths)
RECURSIVE RunAdvanceFrom(_)
RunAdvanceFrom(i) ==
  IF i > Len(rendered.settings.text) THEN 0
  ELSE LET ch == rendered.settings.text[i]
       IN (IF IsHebrew(ch) /\ ~hebrewFont
             THEN rendered.settings.fontSize * 6
             ELSE GlyphWidth(FontOfChar(ch), ch, rendered.settings.fontSize))
          + RunAdvanceFrom(i + 1)

RunRightEdge == 100 + RunAdvanceFrom(1)

\* C30: in harfbuzz display mode the run fits the canvas: its right edge
\* (start x 10 plus the per-character advances, placeholder advances
\* included) is never beyond the canvas width max(totalWidth + 20, 100)
\* written to the <svg>.
C30_RunFitsCanvas ==
  (GlyphOutput /\ preview.content.kind = "hbPaths") => RunRightEdge <= preview.width

====
